---- MODULE Spec2Model ----
(***************************************************************************)
(* The job scheduler of services/job-scheduler (scheduler.py, models.py):  *)
(* the job store, the partitions' counters, the state buckets, and the     *)
(* three operations that change them (submit_job, cancel_job and the       *)
(* scheduling cycle), each taken as one atomic step: the three run under   *)
(* self._lock and never suspend while they hold it.                        *)
(*                                                                         *)
(* Time is in whole seconds.  allocated_memory_gb and memory_gb are Python *)
(* floats: they are modelled as binary floating-point numbers of MantBits  *)
(* significant bits (53 in the program), every sum and difference rounded  *)
(* to nearest, ties to even.                                               *)
(***************************************************************************)
EXTENDS Integers, Sequences, FiniteSets, TLC

\* ------------------------------------------------------------ bounds
\* submissions made in one run (job_counter never exceeds it)
MaxSubmits == 3
\* clock steps in one run, and the seconds of one step
MaxTicks == 1
TickSeconds == 60
\* significant bits of the floating-point format of the memory counters
MantBits == 3
\* hash(job.id) is drawn from 0..MaxHash
MaxHash == 1
\* submissions made in one run of the service's lifecycle
MaxLifeSubmits == 1
\* submissions made in a run of more than a day
MaxDaySubmits == 2

VARIABLES
    jobs,               \* self.jobs: id -> Job
    partitions,         \* self.partitions: name -> Partition
    job_counter,        \* self.job_counter
    jobs_by_state,      \* self._jobs_by_state
    jobs_by_user,       \* self._jobs_by_user
    jobs_by_account,    \* self._jobs_by_account
    jobs_by_partition,  \* self._jobs_by_partition
    completed_jobs,     \* self._completed_jobs: sequence of <<time, id>>
    metrics,            \* the counters and the backfill gauge of metrics.py
    gauges,             \* the gauges of metrics.py that each cycle republishes
    now,                \* datetime.utcnow(), in seconds
    last,               \* history: the last operation and what it started from
    adm,                \* history: per running job, the counters it was admitted on
    scheduler,          \* the global scheduler of main.py and api.py
    _running,           \* self._running
    _scheduler_task,    \* self._scheduler_task: where the loop's task stands
    cancel_requested,   \* Task.cancel() was called and is not yet delivered
    stop_pc,            \* where the shutdown of lifespan stands in stop()
    old_tasks           \* the loop tasks that self._scheduler_task no longer names

vars == <<jobs, partitions, job_counter, jobs_by_state, jobs_by_user,
          jobs_by_account, jobs_by_partition, completed_jobs, metrics, gauges,
          now, last, adm, scheduler, _running, _scheduler_task,
          cancel_requested, stop_pc, old_tasks>>

\* the service's lifecycle: the scheduler object, its loop and its shutdown
life == <<scheduler, _running, _scheduler_task, cancel_requested, stop_pc,
          old_tasks>>

\* ------------------------------------------------------------ models.py
None == <<>>
Some(x) == <<x>>

PartitionState == {"UP", "DOWN", "DRAIN", "INACTIVE"}

JobState == {"PENDING", "PENDING_DEPENDENCY", "RUNNING", "SUSPENDED",
             "COMPLETING", "COMPLETED", "FAILED", "TIMEOUT", "CANCELLED",
             "NODE_FAIL", "PREEMPTED"}

PRIORITY_VALUES == [low |-> 1, normal |-> 10, high |-> 50, urgent |-> 100]

Max(a, b) == IF a >= b THEN a ELSE b

Abs(x) == IF x < 0 THEN 0 - x ELSE x

RECURSIVE Pow2(_)
Pow2(n) == IF n = 0 THEN 1 ELSE 2 * Pow2(n - 1)

\* the spacing of the floating-point numbers around a (a >= 0): the least
\* power of two u with a < 2^MantBits * u
MantLimit == Pow2(MantBits)

RECURSIVE UlpFrom(_, _)
UlpFrom(a, u) == IF a < MantLimit * u THEN u ELSE UlpFrom(a, 2 * u)

\* x rounded to the nearest floating-point number, ties to the even mantissa
Round(x) ==
    LET a == Abs(x)
        u == UlpFrom(a, 1)
        q == a \div u
        r == a % u
        m == IF 2 * r > u \/ (2 * r = u /\ q % 2 = 1) THEN q + 1 ELSE q
    IN  IF x < 0 THEN 0 - (m * u) ELSE m * u

\* float + float and float - float
FAdd(a, b) == Round(a + b)
FSub(a, b) == Round(a - b)

\* Partition.idle_cpus, idle_gpus, idle_memory_gb
idle_cpus(p) == p.total_cpus - p.allocated_cpus
idle_gpus(p) == p.total_gpus - p.allocated_gpus
idle_memory_gb(p) == FSub(p.total_memory_gb, p.allocated_memory_gb)

\* Partition(...) with the defaults of the model class
Partition(nodes, cpus, gpus, mem, maxt, deft) ==
    [state |-> "UP", total_nodes |-> nodes, total_cpus |-> cpus,
     total_gpus |-> gpus, total_memory_gb |-> mem,
     allocated_cpus |-> 0, allocated_gpus |-> 0, allocated_memory_gb |-> 0,
     max_time_minutes |-> maxt, default_time_minutes |-> deft,
     jobs_running |-> 0, jobs_pending |-> 0]

\* JobScheduler._init_partitions
InitPartitions ==
    [gpu     |-> Partition(4, 256, 32, 8192, 7200, 60),
     cpu     |-> Partition(4, 768, 0, 4096, 10080, 120),
     highmem |-> Partition(2, 384, 0, 8192, 4320, 240),
     debug   |-> Partition(1, 16, 2, 128, 30, 10)]

\* a str is a sequence of one-character strings
\* str.strip() with no argument removes leading and trailing whitespace
Whitespace == {" ", "\t", "\n"}

RECURSIVE lstrip(_)
lstrip(v) == IF v # <<>> /\ Head(v) \in Whitespace THEN lstrip(Tail(v)) ELSE v

RECURSIVE rstrip(_)
rstrip(v) ==
    IF v # <<>> /\ v[Len(v)] \in Whitespace
    THEN rstrip(SubSeq(v, 1, Len(v) - 1))
    ELSE v

strip(v) == rstrip(lstrip(v))

\* str.replace(old, new) for one-character old and new
RECURSIVE replace(_, _, _)
replace(v, old, new) ==
    IF v = <<>> THEN <<>>
    ELSE <<IF Head(v) = old THEN new ELSE Head(v)>> \o replace(Tail(v), old, new)

\* JobSubmission.validate_name
validate_name(v) == replace(strip(v), " ", "_")

\* the constraints of the name field, Field(..., min_length=1, max_length=255):
\* they are checked on the value received, before validate_name runs
\* (field_validator is an "after" validator)
NameFieldAccepts(v) == Len(v) >= 1 /\ Len(v) <= 255

\* f"{n:d}": the decimal digits of n
RECURSIVE Digits(_)
Digits(n) == IF n < 10 THEN <<n>> ELSE Append(Digits(n \div 10), n % 10)

RECURSIVE ZeroPad(_, _)
ZeroPad(d, width) == IF Len(d) >= width THEN d ELSE ZeroPad(<<0>> \o d, width)

\* faulty variant: an id of the counter's last binary digit
FormatIdWrapped(n) == ZeroPad(Digits(n % 2), 6)

\* f"{self.job_counter:06d}"
FormatId(n) == ZeroPad(Digits(n), 6)

\* ------------------------------------------------------------ inputs
\* JobSubmission(name=name, ...) for a name the field accepts: the record
\* handed to submit_job
Sub(name, part, prio, c, g, m, t, u, a) ==
    [name |-> validate_name(name), partition |-> part, priority |-> prio,
     resources |-> [cpus |-> c, gpus |-> g, memory_gb |-> m,
                    time_limit_minutes |-> t],
     user |-> u, account |-> a]

Submissions ==
    { Sub(<<"j">>, "debug", "low",    10, 0, 5,  2, "alice", None),
      Sub(<<"j">>, "debug", "urgent", 10, 1, 4,  1, "bob",   Some("proj")),
      Sub(<<"j">>, "debug", "low",    2,  0, 96, 1, "alice", None),
      Sub(<<"j">>, "debug", "high",   17, 0, 4,  1, "alice", None) }

\* ------------------------------------------------------------ gauges
\* sum(...) over the partitions of an int field
SumInt(P, field) ==
    P["gpu"][field] + P["cpu"][field] + P["highmem"][field] + P["debug"][field]

\* sum(...) over the partitions of a float field: 0 + x1 + x2 + ..., each
\* addition rounded
SumFloat(P, field) ==
    FAdd(FAdd(FAdd(FAdd(0, P["gpu"][field]), P["cpu"][field]),
              P["highmem"][field]), P["debug"][field])

\* JobScheduler._update_cluster_metrics; the two memory gauges are in units of
\* 1024 * 1024 * 1024 bytes (the product by that power of two is exact)
ClusterGauges(P) ==
    [cpus_total |-> SumInt(P, "total_cpus"),
     cpus_allocated |-> SumInt(P, "allocated_cpus"),
     cpus_idle |-> SumInt(P, "total_cpus") - SumInt(P, "allocated_cpus"),
     gpus_total |-> SumInt(P, "total_gpus"),
     gpus_allocated |-> SumInt(P, "allocated_gpus"),
     memory_total_bytes |-> SumFloat(P, "total_memory_gb"),
     memory_allocated_bytes |-> SumFloat(P, "allocated_memory_gb")]

\* JobScheduler._update_queue_metrics
QueueGauges(B) ==
    [pending |-> Cardinality(B["PENDING"]),
     running |-> Cardinality(B["RUNNING"]),
     suspended |-> Cardinality(B["SUSPENDED"]),
     completing |-> Cardinality(B["COMPLETING"])]

\* faulty variant: every partition reported as UP
PartitionGaugesAlwaysUp(P) ==
    [pn \in DOMAIN P |->
        [cpus_total |-> P[pn].total_cpus,
         cpus_allocated |-> P[pn].allocated_cpus,
         gpus_total |-> P[pn].total_gpus,
         gpus_allocated |-> P[pn].allocated_gpus,
         jobs_running |-> P[pn].jobs_running,
         jobs_pending |-> P[pn].jobs_pending,
         state |-> 1]]

\* JobScheduler._update_partition_metrics
PartitionGauges(P) ==
    [pn \in DOMAIN P |->
        [cpus_total |-> P[pn].total_cpus,
         cpus_allocated |-> P[pn].allocated_cpus,
         gpus_total |-> P[pn].total_gpus,
         gpus_allocated |-> P[pn].allocated_gpus,
         jobs_running |-> P[pn].jobs_running,
         jobs_pending |-> P[pn].jobs_pending,
         state |-> IF P[pn].state = "UP" THEN 1 ELSE 0]]

\* the labelled children of a gauge after .labels(l).set(count[l]) for each
\* label of DOMAIN count: the other children keep their values
SetLabels(children, count) ==
    [l \in DOMAIN children \cup DOMAIN count |->
        IF l \in DOMAIN count THEN count[l] ELSE children[l]]

\* JobScheduler._update_user_metrics: the jobs of each user in a bucket, for
\* the users that have a job in the RUNNING or the PENDING bucket
UserCounts(J, B, bucket) ==
    [u \in {J[id].user : id \in B["RUNNING"] \cup B["PENDING"]} |->
        Cardinality({id \in B[bucket] : J[id].user = u})]

\* JobScheduler._update_account_metrics: the same, for the jobs with an account
AccountCounts(J, B, bucket) ==
    [a \in {J[id].account[1] :
              id \in {x \in B["RUNNING"] \cup B["PENDING"] : J[x].account # None}} |->
        Cardinality({id \in B[bucket] : J[id].account = Some(a)})]

\* JobScheduler._update_all_metrics
UpdateAllMetrics(G, J, P, B) ==
    [cluster |-> ClusterGauges(P),
     queue |-> QueueGauges(B),
     partition |-> PartitionGauges(P),
     user_running |-> SetLabels(G.user_running, UserCounts(J, B, "RUNNING")),
     user_pending |-> SetLabels(G.user_pending, UserCounts(J, B, "PENDING")),
     account_running |-> SetLabels(G.account_running, AccountCounts(J, B, "RUNNING")),
     account_pending |-> SetLabels(G.account_pending, AccountCounts(J, B, "PENDING"))]

\* ------------------------------------------------------------ state
NoOp == [op |-> "init", id |-> 0, pre |-> InitPartitions, order |-> <<>>,
         released |-> {}, sub |-> None, error |-> None]

\* a JobScheduler as its constructor leaves it, on the partition table P
Constructed(P) ==
    /\ jobs = <<>>
    /\ partitions = P
    /\ job_counter = 0
    /\ jobs_by_state = [s \in JobState |-> {}]
    /\ jobs_by_user = [u \in {} |-> {}]
    /\ jobs_by_account = [u \in {} |-> {}]
    /\ jobs_by_partition = [u \in {} |-> {}]
    /\ completed_jobs = <<>>
    /\ metrics = [submitted |-> 0, completed |-> 0, failed |-> 0,
                  cancelled |-> 0, timeout |-> 0, backfill |-> 0]
    /\ gauges = [cluster |-> ClusterGauges(InitPartitions),
                 queue |-> [pending |-> 0, running |-> 0, suspended |-> 0,
                            completing |-> 0],
                 partition |-> <<>>,
                 user_running |-> <<>>, user_pending |-> <<>>,
                 account_running |-> <<>>, account_pending |-> <<>>]
    /\ now = 0
    /\ last = NoOp
    /\ adm = <<>>

\* the service once lifespan has started it: the scheduler is built on the
\* partition table P and handed to the routes, and its loop sleeps between
\* two cycles
InitOn(P) ==
    /\ Constructed(P)
    /\ scheduler = "JobScheduler"
    /\ _running = TRUE
    /\ _scheduler_task = "sleep"
    /\ cancel_requested = FALSE
    /\ stop_pc = "idle"
    /\ old_tasks = <<>>

Init == InitOn(InitPartitions)

\* defaultdict(set)[k].add(id)
AddTo(index, k, id) ==
    IF k \in DOMAIN index
    THEN [index EXCEPT ![k] = @ \cup {id}]
    ELSE [x \in DOMAIN index \cup {k} |-> IF x = k THEN {id} ELSE index[x]]

\* dict[k] = v on a dict that may not hold k
Put(f, k, v) == [x \in DOMAIN f \cup {k} |-> IF x = k THEN v ELSE f[x]]

\* ------------------------------------------------------------ submit_job
\* faulty variant: a request equal to a total is refused
SubmitVerdictStrict(sub) ==
    IF sub.partition \notin DOMAIN partitions THEN "unknown_partition"
    ELSE LET p == partitions[sub.partition] IN
         IF sub.resources.cpus >= p.total_cpus THEN "cpus"
         ELSE IF sub.resources.gpus >= p.total_gpus THEN "gpus"
         ELSE IF sub.resources.memory_gb >= p.total_memory_gb THEN "memory"
         ELSE IF sub.resources.time_limit_minutes >= p.max_time_minutes
              THEN "time_limit"
         ELSE "ok"

\* faulty variant: the time limit is not checked
SubmitVerdictNoTime(sub) ==
    IF sub.partition \notin DOMAIN partitions THEN "unknown_partition"
    ELSE LET p == partitions[sub.partition] IN
         IF sub.resources.cpus > p.total_cpus THEN "cpus"
         ELSE IF sub.resources.gpus > p.total_gpus THEN "gpus"
         ELSE IF sub.resources.memory_gb > p.total_memory_gb THEN "memory"
         ELSE "ok"

\* faulty variant: the gpus are checked before the cpus
SubmitVerdictGpusFirst(sub) ==
    IF sub.partition \notin DOMAIN partitions THEN "unknown_partition"
    ELSE LET p == partitions[sub.partition] IN
         IF sub.resources.gpus > p.total_gpus THEN "gpus"
         ELSE IF sub.resources.cpus > p.total_cpus THEN "cpus"
         ELSE IF sub.resources.memory_gb > p.total_memory_gb THEN "memory"
         ELSE IF sub.resources.time_limit_minutes > p.max_time_minutes
              THEN "time_limit"
         ELSE "ok"

\* the checks of submit_job, in the code's order; "ok" when all pass
SubmitVerdict(sub) ==
    IF sub.partition \notin DOMAIN partitions THEN "unknown_partition"
    ELSE LET p == partitions[sub.partition] IN
         IF sub.resources.cpus > p.total_cpus THEN "cpus"
         ELSE IF sub.resources.gpus > p.total_gpus THEN "gpus"
         ELSE IF sub.resources.memory_gb > p.total_memory_gb THEN "memory"
         ELSE IF sub.resources.time_limit_minutes > p.max_time_minutes
              THEN "time_limit"
         ELSE "ok"

\* Job(...) as submit_job builds it
NewJob(id, sub, t) ==
    [id |-> FormatId(id), name |-> sub.name,
     partition |-> sub.partition, priority |-> sub.priority,
     priority_value |-> PRIORITY_VALUES[sub.priority],
     resources |-> sub.resources, user |-> sub.user, account |-> sub.account,
     state |-> "PENDING", exit_code |-> None, node_id |-> None,
     submit_time |-> t, start_time |-> None, end_time |-> None]

SubmitJob(sub) ==
    /\ job_counter < MaxSubmits
    /\ job_counter' = job_counter + 1
    /\ LET id == job_counter + 1
           job == NewJob(id, sub, now)
       IN IF SubmitVerdict(sub) = "ok"
          THEN /\ jobs' = Put(jobs, id, job)
               /\ jobs_by_state' = [jobs_by_state EXCEPT !["PENDING"] = @ \cup {id}]
               /\ jobs_by_user' = AddTo(jobs_by_user, job.user, id)
               /\ jobs_by_account' = IF job.account # None
                                     THEN AddTo(jobs_by_account, job.account[1], id)
                                     ELSE jobs_by_account
               /\ jobs_by_partition' = AddTo(jobs_by_partition, job.partition, id)
               /\ partitions' = [partitions EXCEPT ![job.partition].jobs_pending = @ + 1]
               /\ metrics' = [metrics EXCEPT !.submitted = @ + 1]
               /\ last' = [op |-> "submit", id |-> id, pre |-> partitions,
                           order |-> <<>>, released |-> {}, sub |-> Some(sub),
                           error |-> None]
          ELSE /\ UNCHANGED <<jobs, jobs_by_state, jobs_by_user, jobs_by_account,
                              jobs_by_partition, partitions, metrics>>
               /\ last' = [op |-> "rejected", id |-> id, pre |-> InitPartitions,
                           order |-> <<>>, released |-> {}, sub |-> Some(sub),
                           error |-> Some(SubmitVerdict(sub))]
    /\ UNCHANGED <<completed_jobs, gauges, now, adm>>
    /\ UNCHANGED life

\* ------------------------------------------------------------ transitions
\* the scheduler's mutable state handed through the steps of one operation
\* (released: history, the admissions undone by this operation)
Bundle ==
    [jobs |-> jobs, partitions |-> partitions, jobs_by_state |-> jobs_by_state,
     completed_jobs |-> completed_jobs, metrics |-> metrics, adm |-> adm,
     released |-> {}]

Restrict(f, D) == [x \in D |-> f[x]]

\* history: job id is admitted on the counters S holds; the admissions of the
\* other jobs of its partition are no longer undisturbed
ObserveAdmit(S, S1, id) ==
    LET pn == S.jobs[id].partition
        keep == {k \in DOMAIN S.adm : S.jobs[k].partition # pn}
    IN  [S1 EXCEPT !.adm = Put(Restrict(S.adm, keep), id, S.partitions[pn])]

\* history: job id leaves RUNNING; if nothing touched its partition since its
\* admission, the counters before the admission and after the release are kept
ObserveRelease(S, S1, id) ==
    LET pn == S.jobs[id].partition
        keep == {k \in DOMAIN S.adm : S.jobs[k].partition # pn}
    IN  IF S.jobs[id].state # "RUNNING" THEN S1
        ELSE [S1 EXCEPT
                !.adm = Restrict(S.adm, keep),
                !.released = IF id \in DOMAIN S.adm
                             THEN @ \cup {[id |-> id, pre |-> S.adm[id],
                                           post |-> S1.partitions[pn]]}
                             ELSE @]

\* faulty variant: a test that leaves one unit of each resource idle
CanScheduleStrict(job, partition) ==
    LET req == job.resources IN
    /\ req.cpus < idle_cpus(partition)
    /\ req.gpus < idle_gpus(partition) \/ req.gpus = 0
    /\ req.memory_gb < idle_memory_gb(partition)

\* JobScheduler._can_schedule
CanSchedule(job, partition) ==
    LET req == job.resources IN
    /\ ~ (req.cpus > idle_cpus(partition))
    /\ ~ (req.gpus > idle_gpus(partition))
    /\ ~ (req.memory_gb > idle_memory_gb(partition))

\* the allocation of _start_job (lines 226-231)
Allocate(partition, req) ==
    [partition EXCEPT
        !.allocated_cpus = @ + req.cpus,
        !.allocated_gpus = @ + req.gpus,
        !.allocated_memory_gb = FAdd(@, req.memory_gb),
        !.jobs_pending = @ - 1,
        !.jobs_running = @ + 1]

\* faulty variant: a release that forgets jobs_running
ReleaseKeepRunning(partition, req) ==
    [partition EXCEPT
        !.allocated_cpus = @ - req.cpus,
        !.allocated_gpus = @ - req.gpus,
        !.allocated_memory_gb = FSub(@, req.memory_gb)]

\* faulty variant: a release that keeps the cpus allocated
ReleaseKeepCpus(partition, req) ==
    [partition EXCEPT
        !.allocated_gpus = @ - req.gpus,
        !.allocated_memory_gb = FSub(@, req.memory_gb),
        !.jobs_running = @ - 1]

\* the release of _transition_job (lines 259-263)
Release(partition, req) ==
    [partition EXCEPT
        !.allocated_cpus = @ - req.cpus,
        !.allocated_gpus = @ - req.gpus,
        !.allocated_memory_gb = FSub(@, req.memory_gb),
        !.jobs_running = @ - 1]

\* faulty variant: a move that leaves the id in its old bucket
MoveBucketKeepOld(index, id, old, new) ==
    [index EXCEPT ![new] = @ \cup {id}]

\* the bucket move of _start_job (lines 239-240) and _transition_job (271-272)
MoveBucket(index, id, old, new) ==
    [[index EXCEPT ![old] = @ \ {id}] EXCEPT ![new] = @ \cup {id}]

\* faulty variant: the node number counted from zero
NodeNumberFromZero(h, total_nodes) == h % total_nodes

\* (hash(job.id) % partition.total_nodes) + 1
NodeNumber(h, total_nodes) == (h % total_nodes) + 1

\* f"{partition.name}-node-{n:02d}": the name, the literal, the digits
NodeId(name, n) == <<name, "-node-", ZeroPad(Digits(n), 2)>>

\* faulty variant: a start that records no start_time
StartJobNoStartTime(S, id, h, t) ==
    LET job == S.jobs[id]
        pn == job.partition
        partition == S.partitions[pn]
        node == NodeId(pn, NodeNumber(h, partition.total_nodes))
    IN  [S EXCEPT
            !.partitions[pn] = Allocate(partition, job.resources),
            !.jobs[id] = [job EXCEPT !.state = "RUNNING",
                                      !.node_id = Some(node)],
            !.jobs_by_state = MoveBucket(@, id, "PENDING", "RUNNING")]

\* JobScheduler._start_job; h is hash(job.id)
StartJob(S, id, h, t) ==
    LET job == S.jobs[id]
        pn == job.partition
        partition == S.partitions[pn]
        node == NodeId(pn, NodeNumber(h, partition.total_nodes))
    IN  [S EXCEPT
            !.partitions[pn] = Allocate(partition, job.resources),
            !.jobs[id] = [job EXCEPT !.state = "RUNNING",
                                      !.start_time = Some(t),
                                      !.node_id = Some(node)],
            !.jobs_by_state = MoveBucket(@, id, "PENDING", "RUNNING")]

\* the states _transition_job records in the completed-jobs window
WindowStates == {"COMPLETED", "FAILED", "CANCELLED", "TIMEOUT"}

\* the pruning of _transition_job (lines 284-287)
Prune(window, t) == SelectSeq(window, LAMBDA e : e[1] > t - 24 * 3600)

\* faulty variant: a transition that releases whatever the old state
TransitionJobAlwaysRelease(S, id, new_state, exit_code, t) ==
    LET job == S.jobs[id]
        old_state == job.state
        pn == job.partition
    IN  [S EXCEPT
            !.partitions =
                IF pn \in DOMAIN S.partitions
                THEN [@ EXCEPT ![pn] = Release(@, job.resources)]
                ELSE @,
            !.jobs_by_state = MoveBucket(@, id, old_state, new_state),
            !.jobs[id] = [job EXCEPT
                            !.state = new_state,
                            !.end_time = Some(t),
                            !.exit_code = IF exit_code # None THEN exit_code ELSE @],
            !.completed_jobs =
                IF new_state \in WindowStates
                THEN Prune(Append(@, <<t, id>>), t)
                ELSE @]

\* JobScheduler._transition_job
TransitionJob(S, id, new_state, exit_code, t) ==
    LET job == S.jobs[id]
        old_state == job.state
        pn == job.partition
    IN  [S EXCEPT
            !.partitions =
                IF old_state = "RUNNING" /\ pn \in DOMAIN S.partitions
                THEN [@ EXCEPT ![pn] = Release(@, job.resources)]
                ELSE @,
            !.jobs_by_state = MoveBucket(@, id, old_state, new_state),
            !.jobs[id] = [job EXCEPT
                            !.state = new_state,
                            !.end_time = Some(t),
                            !.exit_code = IF exit_code # None THEN exit_code ELSE @],
            !.completed_jobs =
                IF new_state \in WindowStates
                THEN Prune(Append(@, <<t, id>>), t)
                ELSE @]

\* ------------------------------------------------------------ cancel_job
\* faulty variant: a cancel_job that never refuses
CancelTerminalNone == {}

\* faulty variant: a cancel_job that does not refuse a job timed out
CancelTerminalNoTimeout == {"COMPLETED", "FAILED", "CANCELLED"}

\* the states in which cancel_job returns the job untouched
CancelTerminal == {"COMPLETED", "FAILED", "CANCELLED", "TIMEOUT"}

CancelJob(id) ==
    /\ id \in DOMAIN jobs
    /\ jobs[id].state \notin CancelTerminal
    /\ \E S0 \in {Bundle} :
       \E S1 \in {ObserveRelease(S0, TransitionJob(S0, id, "CANCELLED", None, now), id)} :
          /\ jobs' = S1.jobs
          /\ partitions' = S1.partitions
          /\ jobs_by_state' = S1.jobs_by_state
          /\ completed_jobs' = S1.completed_jobs
          /\ metrics' = [S1.metrics EXCEPT !.cancelled = @ + 1]
          /\ adm' = S1.adm
          /\ last' = IF last.op = "submit" /\ last.id = id
                     THEN [op |-> "submit_cancel", id |-> id, pre |-> last.pre,
                           order |-> <<>>, released |-> S1.released,
                           sub |-> None, error |-> None]
                     ELSE [op |-> "cancel", id |-> id, pre |-> InitPartitions,
                           order |-> <<>>, released |-> S1.released,
                           sub |-> None, error |-> None]
    /\ UNCHANGED <<job_counter, jobs_by_user, jobs_by_account, jobs_by_partition,
                   gauges, now>>
    /\ UNCHANGED life

\* cancel_job on an unknown id (returns None) or on a terminal job (returns the
\* job): nothing changes
CancelNoop(id) ==
    /\ \/ id \notin DOMAIN jobs
       \/ id \in DOMAIN jobs /\ jobs[id].state \in CancelTerminal
    /\ UNCHANGED vars

\* ------------------------------------------------------------ reads
\* JobScheduler.get_job
get_job(job_id) == IF job_id \in DOMAIN jobs THEN Some(jobs[job_id]) ELSE None

\* JobScheduler.get_partition
get_partition(name) ==
    IF name \in DOMAIN partitions THEN Some(partitions[name]) ELSE None

\* faulty variant: a summary over the last two days
Hours48 == 48 * 3600

\* timedelta(hours=24), in seconds
Hours24 == 24 * 3600

\* JobScheduler.get_cluster_summary
get_cluster_summary ==
    LET cutoff == now - Hours24 IN
    [total_nodes |-> SumInt(partitions, "total_nodes"),
     total_cpus |-> SumInt(partitions, "total_cpus"),
     total_gpus |-> SumInt(partitions, "total_gpus"),
     total_memory_gb |-> SumFloat(partitions, "total_memory_gb"),
     allocated_cpus |-> SumInt(partitions, "allocated_cpus"),
     allocated_gpus |-> SumInt(partitions, "allocated_gpus"),
     allocated_memory_gb |-> SumFloat(partitions, "allocated_memory_gb"),
     jobs_pending |-> Cardinality(jobs_by_state["PENDING"]),
     jobs_running |-> Cardinality(jobs_by_state["RUNNING"]),
     jobs_completed_24h |->
        Cardinality({i \in DOMAIN completed_jobs :
                        /\ completed_jobs[i][1] > cutoff
                        /\ jobs[completed_jobs[i][2]].state = "COMPLETED"}),
     jobs_failed_24h |->
        Cardinality({i \in DOMAIN completed_jobs :
                        /\ completed_jobs[i][1] > cutoff
                        /\ jobs[completed_jobs[i][2]].state
                              \in {"FAILED", "TIMEOUT", "NODE_FAIL"}}),
     partitions |-> Cardinality(DOMAIN partitions)]

\* ------------------------------------------------------------ the cycle
\* the orders in which a Python set of ids may be iterated
Perms(ids) ==
    {s \in [1..Cardinality(ids) -> ids] :
        \A i, j \in 1..Cardinality(ids) : i # j => s[i] # s[j]}

\* faulty variant: a counter incremented twice for one event
IncTwice(S, counter) == [S EXCEPT !.metrics[counter] = @ + 2]

\* the functions that give each id of DOMAIN opts one of its options
RECURSIVE Choices(_)
Choices(opts) ==
    IF DOMAIN opts = {} THEN {<<>>}
    ELSE LET id == CHOOSE x \in DOMAIN opts : TRUE
             rest == Choices(Restrict(opts, DOMAIN opts \ {id}))
         IN  {Put(f, id, o) : f \in rest, o \in opts[id]}

Inc(S, counter) == [S EXCEPT !.metrics[counter] = @ + 1]

\* random.random() < 0.05, then random.random() < 0.95
Rolls == {"none", "complete", "fail"}

\* faulty variant: a completion chance of 0.3 is enough
CompletionChanceAtLeast(runtime, time_limit) ==
    10 * runtime >= 3 * Max(time_limit, 60)

\* completion_chance > 0.3, with completion_chance = runtime / max(time_limit, 60)
CompletionChanceOver(runtime, time_limit) ==
    10 * runtime > 3 * Max(time_limit, 60)

\* whether _check_running_jobs draws random numbers for the job at time t
DrawsRandom(job, t) ==
    /\ job.start_time # None
    /\ LET runtime == t - job.start_time[1]
           time_limit == job.resources.time_limit_minutes * 60
       IN  /\ ~ (runtime >= time_limit)
           /\ CompletionChanceOver(runtime, time_limit)
           /\ runtime > 10

\* the outcomes of the draws for a running job: "none" where none is drawn
RollOptions(id) == IF DrawsRandom(jobs[id], now) THEN Rolls ELSE {"none"}

\* the values of hash(job.id) for a pending job, one for each node it can
\* select (values equal modulo total_nodes select the same node)
HashOptions(id) ==
    IF jobs[id].partition \in DOMAIN partitions
    THEN {h \in 0..MaxHash : h < partitions[jobs[id].partition].total_nodes}
    ELSE {0}

\* faulty variant: a job times out only once it has run past its limit
CheckRunningJobPastLimit(S, id, roll, t) ==
    LET job == S.jobs[id]
        runtime == t - job.start_time[1]
        time_limit == job.resources.time_limit_minutes * 60
    IN  IF job.start_time = None THEN S
        ELSE IF runtime > time_limit
        THEN Inc(ObserveRelease(S, TransitionJob(S, id, "TIMEOUT", None, t), id),
                 "timeout")
        ELSE IF CompletionChanceOver(runtime, time_limit) /\ runtime > 10
        THEN IF roll = "complete"
             THEN Inc(ObserveRelease(S, TransitionJob(S, id, "COMPLETED", None, t), id),
                      "completed")
             ELSE IF roll = "fail"
             THEN Inc(ObserveRelease(S, TransitionJob(S, id, "FAILED", Some(1), t), id),
                      "failed")
             ELSE S
        ELSE S

\* faulty variant: a job is never timed out, it only completes or fails
CheckRunningJobNoTimeout(S, id, roll, t) ==
    LET job == S.jobs[id]
        runtime == t - job.start_time[1]
        time_limit == job.resources.time_limit_minutes * 60
    IN  IF job.start_time = None THEN S
        ELSE IF CompletionChanceOver(runtime, time_limit) /\ runtime > 10
        THEN IF roll = "complete"
             THEN Inc(ObserveRelease(S, TransitionJob(S, id, "COMPLETED", None, t), id),
                      "completed")
             ELSE IF roll = "fail"
             THEN Inc(ObserveRelease(S, TransitionJob(S, id, "FAILED", Some(1), t), id),
                      "failed")
             ELSE S
        ELSE S

\* the body of the loop of _check_running_jobs for one job
CheckRunningJob(S, id, roll, t) ==
    LET job == S.jobs[id]
        runtime == t - job.start_time[1]
        time_limit == job.resources.time_limit_minutes * 60
    IN  IF job.start_time = None THEN S
        ELSE IF runtime >= time_limit
        THEN Inc(ObserveRelease(S, TransitionJob(S, id, "TIMEOUT", None, t), id),
                 "timeout")
        ELSE IF CompletionChanceOver(runtime, time_limit) /\ runtime > 10
        THEN IF roll = "complete"
             THEN Inc(ObserveRelease(S, TransitionJob(S, id, "COMPLETED", None, t), id),
                      "completed")
             ELSE IF roll = "fail"
             THEN Inc(ObserveRelease(S, TransitionJob(S, id, "FAILED", Some(1), t), id),
                      "failed")
             ELSE S
        ELSE S

\* JobScheduler._check_running_jobs, over the running jobs in the order given
RECURSIVE CheckRunningJobs(_, _, _, _)
CheckRunningJobs(S, order, roll, t) ==
    IF order = <<>> THEN S
    ELSE CHOOSE r \in {CheckRunningJobs(S1, Tail(order), roll, t) :
                          S1 \in {CheckRunningJob(S, Head(order), roll[Head(order)], t)}} :
            TRUE

\* faulty variant: a sort by ascending priority_value
SortKeyLeqAscending(a, b) ==
    \/ a.priority_value < b.priority_value
    \/ a.priority_value = b.priority_value /\ a.submit_time <= b.submit_time

\* the order of the sort keys of _schedule_pending_jobs,
\* (-priority_value, submit_time)
SortKeyLeq(a, b) ==
    \/ a.priority_value > b.priority_value
    \/ a.priority_value = b.priority_value /\ a.submit_time <= b.submit_time

\* the lists pending_jobs.sort(...) may leave: the sort is stable and the list
\* it sorts comes from a set, so jobs with equal keys come in any order
SortedOrders(J, ids) ==
    {s \in Perms(ids) :
        \A i, j \in 1..Cardinality(ids) : i < j => SortKeyLeq(J[s[i]], J[s[j]])}

\* faulty variant: an admission that does not look at the partition's state
SchedulePendingJobAnyState(S, id, h, t) ==
    LET job == S.jobs[id] IN
    IF job.partition \notin DOMAIN S.partitions THEN S
    ELSE IF CanSchedule(job, S.partitions[job.partition])
         THEN ObserveAdmit(S, StartJob(S, id, h, t), id)
         ELSE S

\* the body of the loop of _schedule_pending_jobs for one job
SchedulePendingJob(S, id, h, t) ==
    LET job == S.jobs[id] IN
    IF job.partition \notin DOMAIN S.partitions THEN S
    ELSE IF S.partitions[job.partition].state # "UP" THEN S
    ELSE IF CanSchedule(job, S.partitions[job.partition])
         THEN ObserveAdmit(S, StartJob(S, id, h, t), id)
         ELSE S

\* faulty variant: an admission pass that stops at the first job it cannot start
RECURSIVE SchedulePendingJobsFifo(_, _, _, _, _)
SchedulePendingJobsFifo(S, order, hashes, t, n) ==
    IF order = <<>> THEN [S EXCEPT !.metrics.backfill = n]
    ELSE CHOOSE r \in
            {IF S1.jobs[Head(order)].state = "RUNNING"
             THEN SchedulePendingJobsFifo(S1, Tail(order), hashes, t, n + 1)
             ELSE [S EXCEPT !.metrics.backfill = n] :
               S1 \in {SchedulePendingJob(S, Head(order), hashes[Head(order)], t)}} :
            TRUE

\* JobScheduler._schedule_pending_jobs, over the sorted list; n counts the
\* admissions (backfill_count)
RECURSIVE SchedulePendingJobs(_, _, _, _, _)
SchedulePendingJobs(S, order, hashes, t, n) ==
    IF order = <<>> THEN [S EXCEPT !.metrics.backfill = n]
    ELSE CHOOSE r \in
            {SchedulePendingJobs(S1, Tail(order), hashes, t,
                                 IF S1.jobs[Head(order)].state = "RUNNING"
                                 THEN n + 1 ELSE n) :
               S1 \in {SchedulePendingJob(S, Head(order), hashes[Head(order)], t)}} :
            TRUE

\* faulty variant: a cycle that admits before it advances
ScheduleCycleAdmitFirst ==
    LET running == jobs_by_state["RUNNING"]
        pending == jobs_by_state["PENDING"]
    IN  \E ro \in Perms(running),
           roll \in Choices([id \in running |-> RollOptions(id)]),
           po \in SortedOrders(jobs, pending),
           hashes \in Choices([id \in pending |-> HashOptions(id)]) :
            \E S0 \in {Bundle} :
            \E S1 \in {SchedulePendingJobs(S0, po, hashes, now, 0)} :
            \E S2 \in {CheckRunningJobs(S1, ro, roll, now)} :
                /\ jobs' = S2.jobs
                /\ partitions' = S2.partitions
                /\ jobs_by_state' = S2.jobs_by_state
                /\ completed_jobs' = S2.completed_jobs
                /\ metrics' = S2.metrics
                /\ gauges' = UpdateAllMetrics(gauges, S2.jobs, S2.partitions,
                                              S2.jobs_by_state)
                /\ adm' = S2.adm
                /\ last' = [op |-> "cycle", id |-> 0, pre |-> S0.partitions,
                            order |-> po, released |-> S2.released,
                            sub |-> None, error |-> None]
                /\ UNCHANGED <<job_counter, jobs_by_user, jobs_by_account,
                               jobs_by_partition, now>>

\* JobScheduler._schedule_cycle
ScheduleCycle ==
    LET running == jobs_by_state["RUNNING"]
        pending == jobs_by_state["PENDING"]
    IN  \E ro \in Perms(running),
           roll \in Choices([id \in running |-> RollOptions(id)]),
           po \in SortedOrders(jobs, pending),
           hashes \in Choices([id \in pending |-> HashOptions(id)]) :
            \E S0 \in {Bundle} :
            \E S1 \in {CheckRunningJobs(S0, ro, roll, now)} :
            \E S2 \in {SchedulePendingJobs(S1, po, hashes, now, 0)} :
                /\ jobs' = S2.jobs
                /\ partitions' = S2.partitions
                /\ jobs_by_state' = S2.jobs_by_state
                /\ completed_jobs' = S2.completed_jobs
                /\ metrics' = S2.metrics
                /\ gauges' = UpdateAllMetrics(gauges, S2.jobs, S2.partitions,
                                              S2.jobs_by_state)
                /\ adm' = S2.adm
                /\ last' = [op |-> "cycle", id |-> 0, pre |-> S1.partitions,
                            order |-> po, released |-> S2.released,
                            sub |-> None, error |-> None]
                /\ UNCHANGED <<job_counter, jobs_by_user, jobs_by_account,
                               jobs_by_partition, now>>

\* a cycle of the loop, from the sleep before it to the sleep after it
Cycle == ScheduleCycle /\ UNCHANGED life

\* ------------------------------------------------------------ the clock
Tick ==
    /\ now < MaxTicks * TickSeconds
    /\ now' = now + TickSeconds
    /\ UNCHANGED <<jobs, partitions, job_counter, jobs_by_state, jobs_by_user,
                   jobs_by_account, jobs_by_partition, completed_jobs, metrics,
                   gauges, last, adm>>
    /\ UNCHANGED life

Next ==
    \/ \E sub \in Submissions : SubmitJob(sub)
    \/ \E id \in 1..MaxSubmits : CancelJob(id)
    \/ \E id \in 1..MaxSubmits : CancelNoop(id)
    \/ Cycle
    \/ Tick

Spec == Init /\ [][Next]_vars

\* ------------------------------------------------------------ edge inputs
\* The same scheduler driven with submissions at the edges of what submit_job
\* and the name field accept, on a partition table in which the operator has
\* set the state of debug (the scheduler reads Partition.state, it never
\* writes it).
RawNames == {<<>>, <<" ">>, <<"a", " ", "b">>, <<" ", "a", "\t">>}

EdgeSubmissions ==
    { Sub(<<"j">>, "debug", "normal", 16, 2, 128, 30, "alice", None),
      Sub(<<"j">>, "debug", "normal", 17, 2, 128, 30, "alice", None),
      Sub(<<"j">>, "debug", "normal", 16, 3, 128, 30, "alice", None),
      Sub(<<"j">>, "debug", "normal", 16, 2, 160, 30, "alice", None),
      Sub(<<"j">>, "debug", "normal", 16, 2, 128, 31, "alice", None),
      Sub(<<"j">>, "nope",  "normal", 1,  0, 1,   1,  "alice", None) }
    \cup { Sub(raw, "debug", "normal", 1, 0, 1, 1, "bob", None) :
              raw \in {v \in RawNames : NameFieldAccepts(v)} }

InitEdge ==
    \E st \in PartitionState :
        InitOn([InitPartitions EXCEPT !["debug"].state = st])

NextEdge ==
    \/ \E sub \in EdgeSubmissions : SubmitJob(sub)
    \/ \E id \in 1..MaxSubmits : CancelJob(id)
    \/ Cycle

SpecEdge == InitEdge /\ [][NextEdge]_vars

\* ------------------------------------------------------------ a loop that keeps cycling
\* the jobs RUNNING that have run for their time limit or longer
Overdue ==
    {id \in DOMAIN jobs :
        /\ jobs[id].state = "RUNNING"
        /\ now - jobs[id].start_time[1] >= jobs[id].resources.time_limit_minutes * 60}

\* the loop runs a cycle every second: while a job is overdue (a cycle would
\* time it out) cycles keep being taken.  This is weak fairness of Cycle,
\* asked only in the states where a job is overdue.
CycleFairness ==
    \/ []<>(Overdue = {})
    \/ []<><<Cycle>>_vars

\* the scheduler with a loop that keeps cycling and a clock that advances
SpecLive == Init /\ [][Next]_vars /\ WF_vars(Tick) /\ CycleFairness

\* ------------------------------------------------------------ two partitions
\* The same scheduler with jobs on debug, whose state the operator has set
\* and which one job fills, and on highmem.
PartSubmissions ==
    { Sub(<<"j">>, "debug",   "high",   16, 0, 4, 1, "alice", None),
      Sub(<<"j">>, "debug",   "urgent", 1,  0, 4, 1, "alice", None),
      Sub(<<"j">>, "highmem", "normal", 4,  0, 8, 2, "bob",   None),
      Sub(<<"j">>, "highmem", "low",    4,  0, 8, 2, "bob",   None) }

NextParts ==
    \/ \E sub \in PartSubmissions : SubmitJob(sub)
    \/ \E id \in 1..MaxSubmits : CancelJob(id)
    \/ Cycle

SpecParts == InitEdge /\ [][NextParts]_vars

\* ------------------------------------------------------------ rejections
\* The same scheduler driven with submissions to debug or to a partition
\* that does not exist, each resource at debug's total or just above it:
\* every combination of failing checks.
OrderSubmissions ==
    { Sub(<<"j">>, part, "normal", c, g, m, t, "alice", None) :
        part \in {"debug", "nope"}, c \in {16, 17}, g \in {2, 3},
        m \in {128, 160}, t \in {30, 31} }

NextOrder ==
    \/ \E sub \in OrderSubmissions : SubmitJob(sub)
    \/ \E id \in 1..MaxSubmits : CancelJob(id)
    \/ Cycle

SpecOrder == Init /\ [][NextOrder]_vars

\* ------------------------------------------------------------ short runs
\* The same scheduler with one-minute jobs and the clock read around the
\* thresholds of the completion roll: 10 s, 30% of the limit (18 s) and the
\* limit.
RollClock == {0, 10, 18, 19, 60}

MaxRollSubmits == 2

RollSubmissions ==
    { Sub(<<"j">>, "debug", "normal", 2, 0, 4, 1, "alice", None) }

\* time passes between two operations
TickRoll ==
    /\ \E t \in RollClock : t > now /\ now' = t
    /\ UNCHANGED <<jobs, partitions, job_counter, jobs_by_state, jobs_by_user,
                   jobs_by_account, jobs_by_partition, completed_jobs, metrics,
                   gauges, last, adm>>
    /\ UNCHANGED life

NextRoll ==
    \/ \E sub \in RollSubmissions : job_counter < MaxRollSubmits /\ SubmitJob(sub)
    \/ \E id \in 1..MaxSubmits : CancelJob(id)
    \/ Cycle
    \/ TickRoll

SpecRoll == Init /\ [][NextRoll]_vars

\* ------------------------------------------------------------ failing cycles
\* The same scheduler when a call the cycle makes into the metrics library
\* raises: the exception leaves _schedule_cycle at that call (there is no
\* handler below _scheduler_loop's, which logs and sleeps), so what the cycle
\* has assigned up to the call stays and the rest of the cycle is not run.
MaxFaultSubmits == 2
\* a call raises only while no jobs_running counter is below 1 - MaxFaults
MaxFaults == 1

\* _transition_job of a RUNNING job up to the call of line 266,
\* metrics.slurm_job_runtime_seconds.observe(runtime), which raises
TransitionJobRaises(S, id) ==
    LET job == S.jobs[id]
        pn == job.partition
        keep == {k \in DOMAIN S.adm : S.jobs[k].partition # pn}
    IN  [S EXCEPT
            !.partitions =
                IF job.state = "RUNNING" /\ pn \in DOMAIN S.partitions
                THEN [@ EXCEPT ![pn] = Release(@, job.resources)]
                ELSE @,
            !.adm = Restrict(@, keep)]

\* the scheduler's fields as an interrupted cycle leaves them in S
LeftBy(S) ==
    /\ jobs' = S.jobs
    /\ partitions' = S.partitions
    /\ jobs_by_state' = S.jobs_by_state
    /\ completed_jobs' = S.completed_jobs
    /\ metrics' = [S.metrics EXCEPT !.backfill = metrics.backfill]
    /\ adm' = S.adm
    /\ UNCHANGED <<gauges, job_counter, jobs_by_user, jobs_by_account,
                   jobs_by_partition, now>>
    /\ UNCHANGED life

\* a cycle whose k-th running job is transitioned and whose observation of
\* that job's runtime raises
CycleRaisesInTransition ==
    LET running == jobs_by_state["RUNNING"] IN
    \E ro \in Perms(running),
       roll \in Choices([id \in running |-> RollOptions(id)]) :
        \E k \in 1..Len(ro) :
        \E S1 \in {CheckRunningJobs(Bundle, SubSeq(ro, 1, k - 1), roll, now)} :
            /\ \A pn \in DOMAIN partitions : partitions[pn].jobs_running > - MaxFaults
            /\ CheckRunningJob(S1, ro[k], roll[ro[k]], now).jobs[ro[k]].state # "RUNNING"
            /\ LeftBy(TransitionJobRaises(S1, ro[k]))
            /\ last' = [op |-> "cycle_error", id |-> ro[k], pre |-> partitions,
                        order |-> <<>>, released |-> {}, sub |-> None, error |-> None]

\* a cycle whose k-th pending job is started and whose observation of that
\* job's wait time (line 244) raises
CycleRaisesInStart ==
    LET running == jobs_by_state["RUNNING"]
        pending == jobs_by_state["PENDING"]
    IN  \E ro \in Perms(running),
           roll \in Choices([id \in running |-> RollOptions(id)]),
           po \in SortedOrders(jobs, pending),
           hashes \in Choices([id \in pending |-> HashOptions(id)]) :
            \E k \in 1..Len(po) :
            \E S1 \in {CheckRunningJobs(Bundle, ro, roll, now)} :
            \E S2 \in {SchedulePendingJobs(S1, SubSeq(po, 1, k), hashes, now, 0)} :
                /\ S2.jobs[po[k]].state = "RUNNING"
                /\ LeftBy(S2)
                /\ last' = [op |-> "cycle_error", id |-> po[k], pre |-> S1.partitions,
                            order |-> SubSeq(po, 1, k), released |-> S2.released,
                            sub |-> None, error |-> None]

NextFault ==
    \/ \E sub \in Submissions : job_counter < MaxFaultSubmits /\ SubmitJob(sub)
    \/ \E id \in 1..MaxSubmits : CancelJob(id)
    \/ Cycle
    \/ CycleRaisesInTransition
    \/ CycleRaisesInStart
    \/ Tick

SpecFault == Init /\ [][NextFault]_vars

\* ------------------------------------------------------------ long runs
\* The same scheduler over more than a day, with jobs on the two-node
\* highmem partition as well as on debug, whose state the operator has set:
\* the clock is read at the times of DayClock.
DayClock == {0, TickSeconds, Hours24, Hours24 + TickSeconds}

DaySubmissions ==
    { Sub(<<"j">>, "highmem", "normal", 4, 0, 8, 2, "alice", None),
      Sub(<<"j">>, "debug",   "normal", 2, 0, 4, 1, "bob",   None) }

\* time passes between two operations
TickDay ==
    /\ \E t \in DayClock : t > now /\ now' = t
    /\ UNCHANGED <<jobs, partitions, job_counter, jobs_by_state, jobs_by_user,
                   jobs_by_account, jobs_by_partition, completed_jobs, metrics,
                   gauges, last, adm>>
    /\ UNCHANGED life

NextDay ==
    \/ \E sub \in DaySubmissions : job_counter < MaxDaySubmits /\ SubmitJob(sub)
    \/ \E id \in 1..MaxSubmits : CancelJob(id)
    \/ Cycle
    \/ TickDay

SpecDay == InitEdge /\ [][NextDay]_vars

\* ------------------------------------------------------------ lifecycle
\* The service from before lifespan starts it to after lifespan has stopped
\* it: the routes of api.py, the task of _scheduler_loop and stop().  A step
\* of a coroutine runs from one suspension to the next; submit_job,
\* cancel_job and _schedule_cycle never suspend (the lock they take is free
\* whenever they ask for it), the loop suspends in its two sleeps and stop()
\* where it awaits the task.
LifeSubmissions ==
    { Sub(<<"j">>, "debug", "normal", 2, 0, 4, 1, "alice", None) }

\* the fields of the scheduler object
object == <<jobs, partitions, job_counter, jobs_by_state, jobs_by_user,
            jobs_by_account, jobs_by_partition, completed_jobs, metrics,
            gauges, adm>>

\* before lifespan runs: no scheduler yet (the fields hold what the
\* constructor will build), no task
InitLife ==
    /\ Constructed(InitPartitions)
    /\ scheduler = "None"
    /\ _running = FALSE
    /\ _scheduler_task = "None"
    /\ cancel_requested = FALSE
    /\ stop_pc = "idle"
    /\ old_tasks = <<>>

\* lifespan up to its yield: JobScheduler(), api.set_scheduler, start()
Startup ==
    /\ scheduler = "None"
    /\ scheduler' = "JobScheduler"
    /\ IF _running
       THEN UNCHANGED <<_running, _scheduler_task>>
       ELSE _running' = TRUE /\ _scheduler_task' = "ready"
    /\ UNCHANGED <<object, now, last, cancel_requested, stop_pc, old_tasks>>

\* faulty variant: routes that never answer 503
NotReadyNever == FALSE

\* "if not scheduler" of the routes
NotReady == scheduler = "None"

\* raise HTTPException(status_code=503, ...)
Respond503 ==
    /\ last' = [op |-> "not_ready", id |-> 0, pre |-> InitPartitions,
                order |-> <<>>, released |-> {}, sub |-> None, error |-> None]
    /\ UNCHANGED <<object, now>>
    /\ UNCHANGED life

\* POST /jobs
ApiSubmitJob(sub) ==
    IF NotReady THEN Respond503
    ELSE job_counter < MaxLifeSubmits /\ SubmitJob(sub)

\* DELETE /jobs/{job_id}
ApiCancelJob(id) ==
    IF NotReady THEN Respond503 ELSE CancelJob(id) \/ CancelNoop(id)

\* a cycle that raises an exception: the loop logs it; what the cycle did
\* before raising is left out (no statement of the cycle raises on the states
\* of this model, the exception stands for a failure at its entry)
CycleRaises ==
    /\ last' = [op |-> "cycle_error", id |-> 0, pre |-> InitPartitions,
                order |-> <<>>, released |-> {}, sub |-> None, error |-> None]
    /\ UNCHANGED <<object, now>>

\* faulty variant: a loop that ends when a cycle raises
LoopAfterErrorEnds == "done"

\* where the task suspends after a cycle has raised: the sleep of the handler
LoopAfterError == "error_sleep"

\* the task of _scheduler_loop, from the test of the while to its next
\* suspension (or to its end)
LoopIteration ==
    /\ _scheduler_task = "ready"
    /\ ~ cancel_requested
    /\ IF _running
       THEN \/ ScheduleCycle /\ _scheduler_task' = "sleep"
            \/ CycleRaises /\ _scheduler_task' = LoopAfterError
       ELSE _scheduler_task' = "done" /\ UNCHANGED <<object, now, last>>
    /\ UNCHANGED <<scheduler, _running, cancel_requested, stop_pc, old_tasks>>

\* asyncio.sleep returns: the task is ready to run again
SleepEnds ==
    /\ _scheduler_task \in {"sleep", "error_sleep"}
    /\ ~ cancel_requested
    /\ _scheduler_task' = "ready"
    /\ UNCHANGED <<object, now, last, scheduler, _running, cancel_requested,
                   stop_pc, old_tasks>>

\* CancelledError is thrown into the task where it is suspended (or where it
\* has not begun yet): in the sleep of the try it is caught and the loop
\* breaks, elsewhere it ends the task
Cancelled ==
    /\ cancel_requested
    /\ _scheduler_task \in {"ready", "sleep", "error_sleep"}
    /\ _scheduler_task' = "done"
    /\ cancel_requested' = FALSE
    /\ UNCHANGED <<object, now, last, scheduler, _running, stop_pc, old_tasks>>

\* the shutdown of lifespan: stop() up to "await self._scheduler_task"
Stop ==
    /\ scheduler # "None"
    /\ stop_pc = "idle"
    /\ _running' = FALSE
    /\ IF _scheduler_task = "None"
       THEN stop_pc' = "returned" /\ UNCHANGED cancel_requested
       ELSE /\ stop_pc' = "awaiting"
            /\ cancel_requested' = (_scheduler_task # "done")
    /\ UNCHANGED <<object, now, last, scheduler, _scheduler_task, old_tasks>>

\* faulty variant: a stop() that does not wait for the task
StopMayReturnEarly == TRUE

\* "await self._scheduler_task" returns (or raises CancelledError, which
\* stop() swallows) once the task is done
StopMayReturn == _scheduler_task = "done"

StopReturns ==
    /\ stop_pc = "awaiting"
    /\ StopMayReturn
    /\ stop_pc' = "returned"
    /\ UNCHANGED <<object, now, last, scheduler, _running, _scheduler_task,
                   cancel_requested, old_tasks>>

NextLife ==
    \/ Startup
    \/ \E sub \in LifeSubmissions : ApiSubmitJob(sub)
    \/ \E id \in 1..MaxSubmits : ApiCancelJob(id)
    \/ LoopIteration
    \/ SleepEnds
    \/ Cancelled
    \/ Stop
    \/ StopReturns
    \/ Tick

\* the loop task can take its next iteration
LoopReady == _scheduler_task = "ready" /\ ~ cancel_requested

\* weak fairness of LoopIteration, written out: an iteration is enabled
\* exactly when LoopReady holds, because a cycle can always be taken
LoopFairness ==
    \/ []<>(~ LoopReady)
    \/ []<><<LoopIteration>>_vars

\* the event loop runs every task that is ready and every sleep ends
SpecLife ==
    /\ InitLife
    /\ [][NextLife]_vars
    /\ LoopFairness
    /\ WF_vars(SleepEnds)
    /\ WF_vars(Cancelled)
    /\ WF_vars(StopReturns)

\* ------------------------------------------------------------ start and stop
\* A constructed scheduler whose start() and stop() are called in any order
\* and number.  start() makes self._scheduler_task name a new task; the task
\* it named before lives on in the event loop until it ends.
MaxTasks == 3

InitTasks ==
    /\ Constructed(InitPartitions)
    /\ scheduler = "JobScheduler"
    /\ _running = FALSE
    /\ _scheduler_task = "None"
    /\ cancel_requested = FALSE
    /\ stop_pc = "idle"
    /\ old_tasks = <<>>

\* the tasks created so far
TasksCreated == Len(old_tasks) + (IF _scheduler_task = "None" THEN 0 ELSE 1)

\* JobScheduler.start
StartCall ==
    /\ _running \/ TasksCreated < MaxTasks
    /\ IF _running
       THEN UNCHANGED <<_running, _scheduler_task, cancel_requested, old_tasks>>
       ELSE /\ _running' = TRUE
            /\ _scheduler_task' = "ready"
            /\ cancel_requested' = FALSE
            /\ old_tasks' = IF _scheduler_task = "None" THEN old_tasks
                            ELSE Append(old_tasks, [pc |-> _scheduler_task,
                                                    cancel |-> cancel_requested])
    /\ UNCHANGED <<object, now, last, scheduler, stop_pc>>

\* faulty variant: a stop() that only clears the flag
CancelOnStopNever(task) == FALSE

\* "if self._scheduler_task: self._scheduler_task.cancel()": a cancellation
\* is requested of a task that has not ended
CancelOnStop(task) == task \notin {"None", "done"}

\* JobScheduler.stop up to its await; what follows the await assigns nothing
StopCall ==
    /\ _running' = FALSE
    /\ cancel_requested' = (cancel_requested \/ CancelOnStop(_scheduler_task))
    /\ UNCHANGED <<object, now, last, scheduler, _scheduler_task, stop_pc,
                   old_tasks>>

\* a step of the i-th task that is no longer named: the delivery of its
\* cancellation, the end of its sleep, or an iteration of its loop
OldTaskRuns(i) ==
    LET tk == old_tasks[i]
        To(pc) == old_tasks' = [old_tasks EXCEPT ![i] = [pc |-> pc, cancel |-> FALSE]]
    IN  /\ tk.pc # "done"
        /\ IF tk.cancel
           THEN To("done") /\ UNCHANGED <<object, now, last>>
           ELSE IF tk.pc \in {"sleep", "error_sleep"}
           THEN To("ready") /\ UNCHANGED <<object, now, last>>
           ELSE IF _running
           THEN \/ ScheduleCycle /\ To("sleep")
                \/ CycleRaises /\ To(LoopAfterError)
           ELSE To("done") /\ UNCHANGED <<object, now, last>>
        /\ UNCHANGED <<scheduler, _running, _scheduler_task, cancel_requested,
                       stop_pc>>

NextTasks ==
    \/ StartCall
    \/ StopCall
    \/ \E sub \in LifeSubmissions : job_counter < MaxLifeSubmits /\ SubmitJob(sub)
    \/ LoopIteration
    \/ SleepEnds
    \/ Cancelled
    \/ \E i \in 1..MaxTasks : i \in DOMAIN old_tasks /\ OldTaskRuns(i)

SpecTasks == InitTasks /\ [][NextTasks]_vars

\* ------------------------------------------------------------ properties
PartitionNames == DOMAIN partitions

RunningOn(pn) ==
    {id \in DOMAIN jobs : jobs[id].state = "RUNNING" /\ jobs[id].partition = pn}

PendingOn(pn) ==
    {id \in DOMAIN jobs : jobs[id].state = "PENDING" /\ jobs[id].partition = pn}

Terminal == {"COMPLETED", "FAILED", "TIMEOUT", "CANCELLED"}

RECURSIVE SumOver(_, _)
SumOver(ids, f) ==
    IF ids = {} THEN 0
    ELSE LET id == CHOOSE x \in ids : TRUE
         IN  f[id] + SumOver(ids \ {id}, f)

\* C1: every partition's allocated cpus, gpus and memory lie between 0 and
\* the partition's totals, in every reachable state.
C1_AllocatedWithinTotals ==
    \A pn \in PartitionNames :
        LET p == partitions[pn] IN
        /\ 0 <= p.allocated_cpus /\ p.allocated_cpus <= p.total_cpus
        /\ 0 <= p.allocated_gpus /\ p.allocated_gpus <= p.total_gpus
        /\ 0 <= p.allocated_memory_gb
        /\ p.allocated_memory_gb <= p.total_memory_gb

\* C2: every partition's allocated cpus, gpus and memory equal the sums of
\* the cpus, gpus and memory of the jobs RUNNING on it (the memory sum taken
\* exactly and rounded once to a float).
C2_AllocatedEqualsRunningSum ==
    \A pn \in PartitionNames :
        LET p == partitions[pn]
            R == RunningOn(pn)
        IN  /\ p.allocated_cpus = SumOver(R, [id \in R |-> jobs[id].resources.cpus])
            /\ p.allocated_gpus = SumOver(R, [id \in R |-> jobs[id].resources.gpus])
            /\ p.allocated_memory_gb =
                 Round(SumOver(R, [id \in R |-> jobs[id].resources.memory_gb]))

\* C3: every partition's jobs_pending equals the number of PENDING jobs that
\* target it.
C3_JobsPendingCounts ==
    \A pn \in PartitionNames :
        partitions[pn].jobs_pending = Cardinality(PendingOn(pn))

\* C4: every partition's jobs_running equals the number of RUNNING jobs that
\* target it.
C4_JobsRunningCounts ==
    \A pn \in PartitionNames :
        partitions[pn].jobs_running = Cardinality(RunningOn(pn))

\* a job is RUNNING on debug while another job of debug has left RUNNING
C4_Witness ==
    \E a, b \in DOMAIN jobs :
        /\ jobs[a].state = "RUNNING" /\ jobs[a].partition = "debug"
        /\ jobs[b].state \in Terminal /\ jobs[b].start_time # None
        /\ jobs[b].partition = "debug"

\* C5: every stored job id is in the bucket of the job's state and in no
\* other bucket, and the buckets hold stored ids only.
C5_OneBucket ==
    /\ \A id \in DOMAIN jobs : \A s \in JobState :
          id \in jobs_by_state[s] <=> s = jobs[id].state
    /\ \A s \in JobState : jobs_by_state[s] \subseteq DOMAIN jobs

\* three jobs in three different buckets, one of them moved twice
C5_Witness ==
    \E a, b, c \in DOMAIN jobs :
        /\ jobs[a].state = "PENDING"
        /\ jobs[b].state = "RUNNING"
        /\ jobs[c].state = "TIMEOUT"

\* the state changes the claim allows
AllowedChange(old, new) ==
    \/ old = "PENDING" /\ new \in {"RUNNING", "CANCELLED"}
    \/ old = "RUNNING" /\ new \in {"COMPLETED", "FAILED", "TIMEOUT", "CANCELLED"}

\* C6: in every step a job is created in PENDING or changes state along
\* PENDING -> RUNNING, PENDING -> CANCELLED or RUNNING -> COMPLETED, FAILED,
\* TIMEOUT, CANCELLED; no job leaves a terminal state or the job store.
C6_Lifecycle ==
    [][ /\ DOMAIN jobs \subseteq DOMAIN jobs'
        /\ \A id \in DOMAIN jobs' \ DOMAIN jobs : jobs'[id].state = "PENDING"
        /\ \A id \in DOMAIN jobs :
              jobs'[id].state # jobs[id].state
                  => AllowedChange(jobs[id].state, jobs'[id].state) ]_vars

\* three jobs have each ended their lifecycle a different way: one cancelled
\* while PENDING (it never started), one timed out, one completed
C6_Witness ==
    \E a, b, c \in DOMAIN jobs :
        /\ jobs[a].state = "CANCELLED" /\ jobs[a].start_time = None
        /\ jobs[b].state = "TIMEOUT"
        /\ jobs[c].state = "COMPLETED"

\* the counters of every partition
Counters(P) ==
    [pn \in DOMAIN P |->
        <<P[pn].allocated_cpus, P[pn].allocated_gpus, P[pn].allocated_memory_gb,
          P[pn].jobs_running, P[pn].jobs_pending>>]

\* C7: after a submit_job followed by the cancel_job of the job it created,
\* with no cycle in between, every counter of every partition has the value
\* it had before the submit.
C7_SubmitCancelRestores ==
    last.op = "submit_cancel" => Counters(partitions) = Counters(last.pre)

\* C8: when a job leaves RUNNING and no other job of its partition was
\* admitted or left RUNNING since its admission, the partition's allocated
\* cpus, gpus, memory and jobs_running are what they were before the admission.
C8_AdmitReleaseRestores ==
    \A r \in last.released :
        /\ r.post.allocated_cpus = r.pre.allocated_cpus
        /\ r.post.allocated_gpus = r.pre.allocated_gpus
        /\ r.post.allocated_memory_gb = r.pre.allocated_memory_gb
        /\ r.post.jobs_running = r.pre.jobs_running

\* the request fits the idle resources of the partition
FitsIdle(req, p) ==
    /\ req.cpus <= idle_cpus(p)
    /\ req.gpus <= idle_gpus(p)
    /\ req.memory_gb <= idle_memory_gb(p)

\* job a comes before job b in the priority order
Before(a, b) ==
    \/ jobs[a].priority_value > jobs[b].priority_value
    \/ /\ jobs[a].priority_value = jobs[b].priority_value
       /\ jobs[a].submit_time < jobs[b].submit_time

Examined == {last.order[k] : k \in DOMAIN last.order}

\* a and b are the only pending jobs of an UP partition at the admission pass
\* of the last cycle, each fits its idle resources alone and neither fits
\* once the other is admitted
Contend(a, b) ==
    /\ a # b
    /\ jobs[a].partition = jobs[b].partition
    /\ jobs[a].partition \in DOMAIN last.pre
    /\ LET pn == jobs[a].partition
           p == last.pre[pn]
       IN  /\ p.state = "UP"
           /\ {id \in Examined : jobs[id].partition = pn} = {a, b}
           /\ FitsIdle(jobs[a].resources, p)
           /\ FitsIdle(jobs[b].resources, p)
           /\ ~ FitsIdle(jobs[b].resources, Allocate(p, jobs[a].resources))
           /\ ~ FitsIdle(jobs[a].resources, Allocate(p, jobs[b].resources))

\* C9: the admission pass examines the pending jobs by descending
\* priority_value, then ascending submit_time; of two pending jobs that
\* contend for an UP partition, the one that comes first in that order is
\* RUNNING after the cycle and the other is still PENDING.
C9_PriorityFifo ==
    last.op = "cycle" =>
        /\ \A i, k \in DOMAIN last.order :
              i < k => ~ Before(last.order[k], last.order[i])
        /\ \A a, b \in Examined :
              Contend(a, b) /\ Before(a, b)
                  => jobs[a].state = "RUNNING" /\ jobs[b].state = "PENDING"

\* two contending jobs, the later submitted of higher priority and admitted
C9_Witness ==
    /\ last.op = "cycle"
    /\ \E a, b \in Examined :
          /\ Contend(a, b)
          /\ jobs[a].priority_value > jobs[b].priority_value
          /\ jobs[a].submit_time > jobs[b].submit_time
          /\ jobs[a].state = "RUNNING" /\ jobs[b].state = "PENDING"

\* the partitions as they are when the k-th job of the last admission pass is
\* examined: those of the start of the pass plus the jobs admitted before it
RECURSIVE PartsBefore(_)
PartsBefore(k) ==
    IF k = 1 THEN last.pre
    ELSE LET P == PartsBefore(k - 1)
             id == last.order[k - 1]
         IN  IF jobs[id].state = "RUNNING"
             THEN [P EXCEPT ![jobs[id].partition] = Allocate(@, jobs[id].resources)]
             ELSE P

\* the k-th job of the last admission pass targets an UP partition and fits
\* its idle resources when it is examined
FitsAt(k) ==
    LET id == last.order[k]
        pn == jobs[id].partition
    IN  /\ pn \in DOMAIN last.pre
        /\ last.pre[pn].state = "UP"
        /\ FitsIdle(jobs[id].resources, PartsBefore(k)[pn])

\* C10: in an admission pass a job that does not fit when it is examined
\* stays PENDING, and every job examined after it that fits when it is
\* examined is RUNNING after the cycle.
C10_HeadOfLineBypass ==
    last.op = "cycle" =>
        \A i \in DOMAIN last.order :
            ~ FitsAt(i) =>
                /\ jobs[last.order[i]].state = "PENDING"
                /\ \A k \in DOMAIN last.order :
                      k > i /\ FitsAt(k) => jobs[last.order[k]].state = "RUNNING"

\* a job of higher priority does not fit and a later job of its partition is
\* admitted past it
C10_Witness ==
    /\ last.op = "cycle"
    /\ \E i, k \in DOMAIN last.order :
          /\ i < k
          /\ ~ FitsAt(i) /\ FitsAt(k)
          /\ jobs[last.order[i]].partition = jobs[last.order[k]].partition
          /\ jobs[last.order[i]].priority_value > jobs[last.order[k]].priority_value
          /\ jobs[last.order[i]].state = "PENDING"
          /\ jobs[last.order[k]].state = "RUNNING"

\* C11: a submission to a partition whose state is not UP, with a request
\* within the partition's totals, is stored in PENDING; a job whose partition
\* is not UP has never been started (the partition's state does not change
\* during a run), whatever the number of cycles.
C11_NotUpNeverAdmitted ==
    /\ \A id \in DOMAIN jobs :
          partitions[jobs[id].partition].state # "UP"
              => /\ jobs[id].state \in {"PENDING", "CANCELLED"}
                 /\ jobs[id].start_time = None
                 /\ jobs[id].node_id = None
    /\ last.op = "rejected" /\ last.sub[1].partition \in PartitionNames
          => LET sub == last.sub[1]
                 p == partitions[sub.partition]
             IN  \/ p.state = "UP"
                 \/ sub.resources.cpus > p.total_cpus
                 \/ sub.resources.gpus > p.total_gpus
                 \/ sub.resources.memory_gb > p.total_memory_gb
                 \/ sub.resources.time_limit_minutes > p.max_time_minutes
    /\ last.op = "submit" => jobs[last.id].state = "PENDING"

\* a cycle has examined a job of debug, debug is not UP and had the idle
\* resources for the job, and the job is still PENDING
C11_Witness ==
    /\ last.op = "cycle"
    /\ partitions["debug"].state = "DRAIN"
    /\ \E id \in Examined :
          /\ jobs[id].partition = "debug"
          /\ FitsIdle(jobs[id].resources, last.pre["debug"])
          /\ jobs[id].state = "PENDING"

\* the acceptance condition of the claim
WithinTotals(sub) ==
    /\ sub.partition \in PartitionNames
    /\ LET p == partitions[sub.partition] IN
       /\ sub.resources.cpus <= p.total_cpus
       /\ sub.resources.gpus <= p.total_gpus
       /\ sub.resources.memory_gb <= p.total_memory_gb
       /\ sub.resources.time_limit_minutes <= p.max_time_minutes

\* C12: submit_job stores the job if and only if the partition exists and the
\* request's cpus, gpus, memory and time limit are at most the partition's
\* totals and maximum time, whatever the partition's idle resources and state.
C12_AcceptedIffWithinTotals ==
    last.op \in {"submit", "rejected"} =>
        /\ last.op = "submit" <=> WithinTotals(last.sub[1])
        /\ last.op = "submit" <=> last.id \in DOMAIN jobs

\* a request equal to the totals of debug is accepted while debug has no idle
\* cpu, gpu or memory left
C12_Witness ==
    /\ last.op = "submit"
    /\ LET sub == last.sub[1]
           p == partitions["debug"]
       IN  /\ sub.partition = "debug"
           /\ sub.resources.cpus = p.total_cpus
           /\ sub.resources.gpus = p.total_gpus
           /\ sub.resources.memory_gb = p.total_memory_gb
           /\ sub.resources.time_limit_minutes = p.max_time_minutes
           /\ idle_cpus(p) = 0 /\ idle_gpus(p) = 0 /\ idle_memory_gb(p) = 0

\* C13: a submit_job call whose submission names an unknown partition, or
\* asks for more than a total or than the maximum time of its partition,
\* leaves the job table, the four indexes, every partition counter and
\* jobs_submitted_total as they were.
C13_RejectionChangesNothing ==
    [][ last' # last /\ last'.sub # None /\ ~ WithinTotals(last'.sub[1])
            => /\ UNCHANGED <<jobs, jobs_by_state, jobs_by_user, jobs_by_account,
                              jobs_by_partition>>
               /\ Counters(partitions') = Counters(partitions)
               /\ metrics'.submitted = metrics.submitted ]_vars

\* a submission over the maximum time of debug has been rejected while debug
\* holds a running and a pending job
C13_Witness ==
    /\ last.op = "rejected"
    /\ last.sub[1].partition = "debug"
    /\ last.sub[1].resources.time_limit_minutes > partitions["debug"].max_time_minutes
    /\ partitions["debug"].jobs_running > 0
    /\ \E id \in DOMAIN jobs : jobs[id].state = "PENDING"

\* the number an id is the decimal writing of
RECURSIVE IdValue(_)
IdValue(d) == IF d = <<>> THEN 0 ELSE 10 * IdValue(SubSeq(d, 1, Len(d) - 1)) + d[Len(d)]

\* C14: the id counter counts the accepted submissions, and the k-th job
\* accepted has the id k written on six digits.
C14_IdsCountAccepted ==
    /\ job_counter = metrics.submitted
    /\ \A k \in DOMAIN jobs :
          jobs[k].id = FormatId(Cardinality({j \in DOMAIN jobs : j <= k}))

\* C15: in every step the stored jobs keep their ids, the ids of the stored
\* jobs are pairwise different, and a job stored by the step has an id
\* numerically larger than the id of every job stored before.
C15_IdsUniqueIncreasing ==
    [][ /\ \A o \in DOMAIN jobs : o \in DOMAIN jobs' /\ jobs'[o].id = jobs[o].id
        /\ \A a, b \in DOMAIN jobs' : a # b => jobs'[a].id # jobs'[b].id
        /\ \A n \in DOMAIN jobs' \ DOMAIN jobs : \A o \in DOMAIN jobs :
              IdValue(jobs'[n].id) > IdValue(jobs[o].id) ]_vars

\* three jobs were submitted around a cancellation and a cycle: the first is
\* cancelled, the second runs, the third is pending, and their ids increase
\* with their submit order
C15_Witness ==
    \E a, b, c \in DOMAIN jobs :
        /\ jobs[a].state = "CANCELLED" /\ jobs[b].state = "RUNNING"
        /\ jobs[c].state = "PENDING"
        /\ jobs[b].start_time[1] < jobs[c].submit_time
        /\ jobs[a].submit_time <= jobs[b].submit_time
        /\ IdValue(jobs[a].id) < IdValue(jobs[b].id)
        /\ IdValue(jobs[b].id) < IdValue(jobs[c].id)

\* C16: no stored job has an empty name or a name that contains a space.
C16_NamesNormalized ==
    \A id \in DOMAIN jobs :
        /\ jobs[id].name # <<>>
        /\ \A i \in DOMAIN jobs[id].name : jobs[id].name[i] # " "

\* the step is a cancel_job call that found job id PENDING or RUNNING
CancelStep(id) ==
    /\ last' # last
    /\ last'.op \in {"cancel", "submit_cancel"}
    /\ last'.id = id

\* the allocated counters of every partition
Allocated(P) ==
    [pn \in DOMAIN P |->
        <<P[pn].allocated_cpus, P[pn].allocated_gpus, P[pn].allocated_memory_gb>>]

\* C17: a cancel_job call on a PENDING or RUNNING job leaves it CANCELLED and
\* adds exactly 1 to jobs_cancelled_total; when the job was PENDING the
\* allocated counters of every partition are untouched and the job's
\* start_time and node_id are still unset.
C17_CancelActive ==
    [][ \A id \in DOMAIN jobs :
          CancelStep(id)
              => /\ jobs[id].state \in {"PENDING", "RUNNING"}
                 /\ jobs'[id].state = "CANCELLED"
                 /\ metrics'.cancelled = metrics.cancelled + 1
                 /\ jobs[id].state = "PENDING"
                       => /\ Allocated(partitions') = Allocated(partitions)
                          /\ jobs'[id].start_time = None
                          /\ jobs'[id].node_id = None ]_vars

\* a job cancelled while PENDING next to a running job, and a job cancelled
\* while RUNNING: jobs_cancelled_total counts the two
C17_Witness ==
    /\ metrics.cancelled = 2
    /\ \E a, b, c \in DOMAIN jobs :
          /\ jobs[a].state = "CANCELLED" /\ jobs[a].start_time = None
          /\ jobs[b].state = "CANCELLED" /\ jobs[b].start_time # None
          /\ jobs[c].state = "RUNNING"
          /\ last.op = "cancel" /\ last.id = a

\* the entries of job id in the completed-jobs window
WindowEntries(window, id) == {i \in DOMAIN window : window[i][2] = id}

\* C18: a cancel_job call on a job that is COMPLETED, FAILED, TIMEOUT or
\* CANCELLED changes nothing: not the job's record, the partitions, the
\* indexes, the completed-jobs window nor a metric counter.  No step at all
\* changes the record of a terminal job or gives it a second entry in the
\* window.
C18_CancelTerminalNoop ==
    [][ \A id \in DOMAIN jobs :
          jobs[id].state \in Terminal
              => /\ jobs'[id] = jobs[id]
                 /\ WindowEntries(completed_jobs', id) = WindowEntries(completed_jobs, id)
                 /\ CancelJob(id) \/ CancelNoop(id)
                       => UNCHANGED <<jobs, partitions, jobs_by_state, jobs_by_user,
                                      jobs_by_account, jobs_by_partition,
                                      completed_jobs, metrics>> ]_vars

\* a job has just been cancelled and another has timed out at an earlier
\* time: a further cancel_job of either is the call that changes nothing
C18_Witness ==
    /\ last.op = "cancel"
    /\ jobs[last.id].state = "CANCELLED"
    /\ ENABLED CancelNoop(last.id)
    /\ \E b \in DOMAIN jobs :
          /\ jobs[b].state = "TIMEOUT"
          /\ ENABLED CancelNoop(b)
          /\ ~ ENABLED CancelJob(b)

\* the step is a scheduling cycle
CycleStep == last'.op = "cycle" /\ now' = now /\ job_counter' = job_counter

\* the jobs RUNNING on partition pn that the step takes out of RUNNING
EndedOn(pn) == {id \in RunningOn(pn) : jobs'[id].state # "RUNNING"}

\* C19: a cancel_job call on a RUNNING job returns with the job's cpus, gpus
\* and memory subtracted from its partition's allocated counters (the memory
\* by a float subtraction), so the idle cpus and gpus have grown by the
\* job's; the admission pass of a cycle that follows starts from these
\* counters (less what the cycle itself releases first) and starts the first
\* pending job it examines that fits them.
C19_CancelFreesBeforeCycle ==
    [][ /\ \A id \in DOMAIN jobs :
              CancelStep(id) /\ jobs[id].state = "RUNNING"
                  => LET pn == jobs[id].partition
                         req == jobs[id].resources
                         p == partitions[pn]
                         q == partitions'[pn]
                     IN  /\ q.allocated_cpus = p.allocated_cpus - req.cpus
                         /\ q.allocated_gpus = p.allocated_gpus - req.gpus
                         /\ q.allocated_memory_gb = FSub(p.allocated_memory_gb, req.memory_gb)
                         /\ idle_cpus(q) = idle_cpus(p) + req.cpus
                         /\ idle_gpus(q) = idle_gpus(p) + req.gpus
        /\ CycleStep /\ last.op = "cancel"
              => /\ \A pn \in PartitionNames :
                       EndedOn(pn) = {} => last'.pre[pn] = partitions[pn]
                 /\ last'.order # <<>>
                       => LET h == last'.order[1]
                              pn == jobs[h].partition
                          IN  partitions[pn].state = "UP"
                                 /\ FitsIdle(jobs[h].resources, last'.pre[pn])
                              => jobs'[h].state = "RUNNING" ]_vars

\* a job was cancelled while RUNNING, and a job that was pending at that time
\* and could not run beside it (together they ask for more cpus than the
\* partition has) was started by a cycle at the time of the cancellation
C19_Witness ==
    \E a, b \in DOMAIN jobs :
        /\ jobs[a].state = "CANCELLED" /\ jobs[a].start_time # None
        /\ jobs[b].state = "RUNNING"
        /\ jobs[a].partition = jobs[b].partition
        /\ jobs[a].resources.cpus + jobs[b].resources.cpus
              > partitions[jobs[a].partition].total_cpus
        /\ jobs[b].submit_time < jobs[a].end_time[1]
        /\ jobs[b].start_time = jobs[a].end_time
        /\ last.op = "cycle"

\* C20: a cycle moves every job that is RUNNING at its start and has run for
\* its time limit or longer to TIMEOUT, and adds to jobs_timeout_total the
\* number of these jobs.
C20_OverdueTimesOut ==
    [][ CycleStep
            => /\ \A id \in Overdue : jobs'[id].state = "TIMEOUT"
               /\ metrics'.timeout = metrics.timeout + Cardinality(Overdue) ]_vars

\* one cycle has timed out two jobs that had run for exactly their limit of
\* one minute
C20_Witness ==
    /\ last.op = "cycle"
    /\ metrics.timeout = 2
    /\ \E a, b \in DOMAIN jobs :
          /\ a # b
          /\ jobs[a].state = "TIMEOUT" /\ jobs[a].end_time = Some(now)
          /\ jobs[b].state = "TIMEOUT" /\ jobs[b].end_time = Some(now)
          /\ now - jobs[a].start_time[1] = jobs[a].resources.time_limit_minutes * 60
          /\ now - jobs[b].start_time[1] = jobs[b].resources.time_limit_minutes * 60

\* C21: whatever the interleaving of submit_job, cancel_job and the cycle,
\* what get_partition, get_job and get_cluster_summary return satisfies the
\* invariants of the data model: allocations within the totals and equal to
\* the sums over the RUNNING jobs, jobs_running and jobs_pending equal to the
\* numbers of RUNNING and PENDING jobs, a RUNNING job with its start_time and
\* node_id, and the summary's counts equal to those numbers.
C21_ReadsSeeInvariants ==
    /\ \A pn \in PartitionNames :
          LET p == get_partition(pn)[1]
              R == {id \in DOMAIN jobs :
                      /\ get_job(id)[1].state = "RUNNING"
                      /\ get_job(id)[1].partition = pn}
              Q == {id \in DOMAIN jobs :
                      /\ get_job(id)[1].state = "PENDING"
                      /\ get_job(id)[1].partition = pn}
          IN  /\ 0 <= p.allocated_cpus /\ p.allocated_cpus <= p.total_cpus
              /\ 0 <= p.allocated_gpus /\ p.allocated_gpus <= p.total_gpus
              /\ 0 <= p.allocated_memory_gb
              /\ p.allocated_memory_gb <= p.total_memory_gb
              /\ p.jobs_running = Cardinality(R)
              /\ p.jobs_pending = Cardinality(Q)
              /\ p.allocated_cpus = SumOver(R, [id \in R |-> jobs[id].resources.cpus])
              /\ p.allocated_gpus = SumOver(R, [id \in R |-> jobs[id].resources.gpus])
              /\ p.allocated_memory_gb =
                   Round(SumOver(R, [id \in R |-> jobs[id].resources.memory_gb]))
    /\ \A id \in DOMAIN jobs :
          get_job(id)[1].state = "RUNNING"
              => get_job(id)[1].start_time # None /\ get_job(id)[1].node_id # None
    /\ get_cluster_summary.jobs_running
          = Cardinality({id \in DOMAIN jobs : jobs[id].state = "RUNNING"})
    /\ get_cluster_summary.jobs_pending
          = Cardinality({id \in DOMAIN jobs : jobs[id].state = "PENDING"})

\* the loop has been stopped: stop() was called
Stopped == stop_pc # "idle"

\* C22: a cycle that raises does not end the loop: the task sleeps and comes
\* back to the head of the loop, and from there it attempts a cycle and
\* reaches its next sleep, unless the scheduler is stopped meanwhile; the
\* task ends only once stop() has been called.
C22_LoopSurvivesErrors ==
    /\ (_scheduler_task = "error_sleep") ~> (_scheduler_task = "ready" \/ Stopped)
    /\ (_scheduler_task = "ready" /\ last.op = "cycle_error")
          ~> (_scheduler_task \in {"sleep", "error_sleep"} \/ Stopped)
    /\ [](_scheduler_task = "done" => Stopped)

\* a cycle raised, the task slept and is back at the head of the loop of a
\* scheduler that has not been stopped
C22_Witness ==
    /\ last.op = "cycle_error"
    /\ _scheduler_task = "ready"
    /\ _running
    /\ ~ Stopped

\* the step is a cycle of the task that ran to its end
LoopCycleStep == _scheduler_task = "ready" /\ _scheduler_task' = "sleep"

\* C23: stop() has returned only if the task is done; a cycle of the task
\* always runs its three steps (the gauges it leaves are those of the jobs,
\* partitions and buckets it leaves); once stop() has been called no cycle
\* begins, and once it has returned the task does nothing more.
C23_StopAwaitsTask ==
    [][ /\ stop_pc' = "returned" => _scheduler_task' = "done"
        /\ LoopCycleStep
              => /\ gauges' = UpdateAllMetrics(gauges, jobs', partitions', jobs_by_state')
                 /\ last'.op = "cycle"
                 /\ ~ Stopped
        /\ Stopped => ~ LoopCycleStep /\ gauges' = gauges
        /\ stop_pc = "returned" => _scheduler_task' = _scheduler_task ]_vars

\* stop() has returned on a scheduler whose last cycle started a job
C23_Witness ==
    /\ stop_pc = "returned"
    /\ _scheduler_task = "done"
    /\ ~ _running
    /\ last.op = "cycle"
    /\ \E id \in DOMAIN jobs :
          jobs[id].state = "RUNNING" /\ jobs[id].start_time = Some(now)

\* C29: while the scheduler's task has not been started, a submit or cancel
\* request is answered 503 and changes nothing of the scheduler.
C29_NotReadyBeforeStart ==
    [][ _scheduler_task = "None" /\ last' # last
            => /\ last'.op = "not_ready"
               /\ UNCHANGED object ]_vars

\* a request has been answered 503 and the service is not started yet
C29_Witness ==
    /\ last.op = "not_ready"
    /\ scheduler = "None"
    /\ _scheduler_task = "None"
    /\ jobs = <<>> /\ job_counter = 0

\* C24: every RUNNING job has a start_time and a node_id that reads
\* "<its partition>-node-NN", NN the two digits of a number from 1 to the
\* partition's total_nodes; on debug it is debug-node-01.
C24_RunningHasNode ==
    \A id \in DOMAIN jobs :
        jobs[id].state = "RUNNING"
            => /\ jobs[id].start_time # None
               /\ jobs[id].node_id # None
               /\ \E n \in 1..partitions[jobs[id].partition].total_nodes :
                      jobs[id].node_id[1]
                          = <<jobs[id].partition, "-node-", <<n \div 10, n % 10>>>>
               /\ jobs[id].partition = "debug"
                      => jobs[id].node_id[1] = <<"debug", "-node-", <<0, 1>>>>

\* a job runs on the second node of highmem and another on the node of debug
C24_Witness ==
    \E a, b \in DOMAIN jobs :
        /\ jobs[a].state = "RUNNING" /\ jobs[b].state = "RUNNING"
        /\ jobs[a].node_id = Some(<<"highmem", "-node-", <<0, 2>>>>)
        /\ jobs[b].partition = "debug"

\* C25 as stated: every job in a terminal state has an end_time and a
\* start_time, with end_time >= start_time >= submit_time.
C25_TerminalHasStartAndEnd ==
    \A id \in DOMAIN jobs :
        jobs[id].state \in Terminal
            => /\ jobs[id].end_time # None
               /\ jobs[id].start_time # None
               /\ jobs[id].end_time[1] >= jobs[id].start_time[1]
               /\ jobs[id].start_time[1] >= jobs[id].submit_time

\* C25 as amended: every job in a terminal state has an end_time, not before
\* its submit_time; a job that was started (it has a node_id: every
\* COMPLETED, FAILED or TIMEOUT job and a job cancelled while RUNNING) has a
\* start_time with end_time >= start_time >= submit_time; a job that was
\* not started is a CANCELLED job and has no start_time.
C25_TerminalTimes ==
    \A id \in DOMAIN jobs :
        jobs[id].state \in Terminal
            => /\ jobs[id].end_time # None
               /\ jobs[id].end_time[1] >= jobs[id].submit_time
               /\ jobs[id].node_id # None \/ jobs[id].state # "CANCELLED"
                      => /\ jobs[id].start_time # None
                         /\ jobs[id].node_id # None
                         /\ jobs[id].end_time[1] >= jobs[id].start_time[1]
                         /\ jobs[id].start_time[1] >= jobs[id].submit_time
               /\ jobs[id].node_id = None
                      => jobs[id].state = "CANCELLED" /\ jobs[id].start_time = None

\* a job cancelled while PENDING, some time after its submission, and a job
\* that ended some time after its start, itself some time after its
\* submission
C25_Witness ==
    \E a, b \in DOMAIN jobs :
        /\ jobs[a].state = "CANCELLED" /\ jobs[a].start_time = None
        /\ jobs[a].end_time # None /\ jobs[a].end_time[1] > jobs[a].submit_time
        /\ jobs[b].state \in {"COMPLETED", "FAILED", "TIMEOUT"}
        /\ jobs[b].end_time[1] > jobs[b].start_time[1]
        /\ jobs[b].start_time[1] > jobs[b].submit_time

\* the node_ids that starting pending job id now can give it, one for each
\* value hash(job.id) can have in a run of the process
NodesFor(id) ==
    {StartJob(Bundle, id, h, now).jobs[id].node_id : h \in HashOptions(id)}

\* C26: the node a job is given on admission is a function of its id and
\* its partition alone: whatever the run of the process, starting a given
\* pending job gives it one and the same node_id.
C26_NodeDeterministic ==
    [][ \A id \in DOMAIN jobs :
          jobs[id].state = "PENDING" /\ jobs'[id].state = "RUNNING"
              => NodesFor(id) = {jobs'[id].node_id} ]_vars

\* the jobs of the store in state st
InState(st) == {id \in DOMAIN jobs : jobs[id].state = st}

\* the monotonic counters of metrics.py
MonotonicCounters == {"submitted", "completed", "failed", "cancelled", "timeout"}

\* C27: in every reachable state jobs_submitted_total is the number of jobs
\* in the store and jobs_completed_total, jobs_failed_total,
\* jobs_cancelled_total and jobs_timeout_total are the numbers of jobs in
\* state COMPLETED, FAILED, CANCELLED and TIMEOUT; no step decreases any of
\* the five.
C27_CountersCountOnce ==
    /\ [](/\ metrics.submitted = Cardinality(DOMAIN jobs)
          /\ metrics.completed = Cardinality(InState("COMPLETED"))
          /\ metrics.failed = Cardinality(InState("FAILED"))
          /\ metrics.cancelled = Cardinality(InState("CANCELLED"))
          /\ metrics.timeout = Cardinality(InState("TIMEOUT")))
    /\ [][\A c \in MonotonicCounters : metrics'[c] >= metrics[c]]_vars

\* three jobs were submitted: one was cancelled, one timed out and one
\* completed
C27_Witness ==
    /\ metrics.submitted = 3 /\ Cardinality(DOMAIN jobs) = 3
    /\ metrics.cancelled = 1 /\ InState("CANCELLED") # {}
    /\ metrics.timeout = 1 /\ InState("TIMEOUT") # {}
    /\ metrics.completed = 1 /\ InState("COMPLETED") # {}

\* the jobs in one of the states sts whose transition to it (their end_time)
\* is less than 24 hours old
EndedWithinDay(sts) ==
    {id \in DOMAIN jobs :
        /\ jobs[id].state \in sts
        /\ jobs[id].end_time # None
        /\ jobs[id].end_time[1] > now - 24 * 3600}

\* C28: get_cluster_summary reports as jobs_completed_24h the number of jobs
\* that went to COMPLETED within the last 24 hours and as jobs_failed_24h
\* the number that went to FAILED or TIMEOUT within the last 24 hours:
\* each job once, no CANCELLED job, and no older transition, whether or not
\* the window still holds it.
C28_SummaryCountsLastDay ==
    /\ get_cluster_summary.jobs_completed_24h
          = Cardinality(EndedWithinDay({"COMPLETED"}))
    /\ get_cluster_summary.jobs_failed_24h
          = Cardinality(EndedWithinDay({"FAILED", "TIMEOUT"}))

\* the window still holds a job completed 24 hours ago, which the summary
\* does not count, beside a job timed out since, which it counts
C28_Witness ==
    /\ Len(completed_jobs) = 2
    /\ \E i \in DOMAIN completed_jobs :
          /\ completed_jobs[i][1] = now - 24 * 3600
          /\ jobs[completed_jobs[i][2]].state = "COMPLETED"
    /\ \E i \in DOMAIN completed_jobs :
          /\ completed_jobs[i][1] > now - 24 * 3600
          /\ jobs[completed_jobs[i][2]].state = "TIMEOUT"
    /\ get_cluster_summary.jobs_completed_24h = 0
    /\ get_cluster_summary.jobs_failed_24h = 1

\* C30: at the end of every cycle the queue gauges are the sizes of the
\* PENDING, RUNNING, SUSPENDED and COMPLETING buckets and each partition's
\* gauges are its allocated cpus and gpus, its jobs_running and jobs_pending
\* counters and 1 or 0 as its state is UP or not, all as the cycle's
\* advancement and admission steps leave them.
C30_GaugesAfterCycle ==
    [][ CycleStep
          => /\ gauges'.queue.pending = Cardinality(jobs_by_state'["PENDING"])
             /\ gauges'.queue.running = Cardinality(jobs_by_state'["RUNNING"])
             /\ gauges'.queue.suspended = Cardinality(jobs_by_state'["SUSPENDED"])
             /\ gauges'.queue.completing = Cardinality(jobs_by_state'["COMPLETING"])
             /\ \A pn \in PartitionNames :
                   LET g == gauges'.partition[pn]
                       p == partitions'[pn]
                   IN  /\ g.cpus_allocated = p.allocated_cpus
                       /\ g.gpus_allocated = p.allocated_gpus
                       /\ g.jobs_running = p.jobs_running
                       /\ g.jobs_pending = p.jobs_pending
                       /\ g.state = 1 <=> p.state = "UP"
                       /\ g.state = 0 <=> p.state # "UP" ]_vars

\* a cycle has ended a job of highmem and started another, on a cluster
\* whose debug partition is not UP: the gauges show the one running job, its
\* cpus and the flag 0 of debug
C30_Witness ==
    /\ last.op = "cycle"
    /\ \E a, b \in DOMAIN jobs :
          /\ jobs[a].partition = "highmem" /\ jobs[b].partition = "highmem"
          /\ jobs[a].state \in {"COMPLETED", "FAILED", "TIMEOUT"}
          /\ jobs[a].end_time = Some(now)
          /\ jobs[b].state = "RUNNING" /\ jobs[b].start_time = Some(now)
    /\ gauges.queue.running = 1 /\ gauges.queue.pending = 0
    /\ gauges.partition["highmem"].cpus_allocated = 4
    /\ gauges.partition["highmem"].jobs_running = 1
    /\ partitions["debug"].state # "UP"
    /\ gauges.partition["debug"].state = 0

\* C31: after a cycle that an exception has cut short, every admission and
\* transition the cycle began has taken effect as a whole or not at all:
\* every job is in the bucket of its state and in no other, and every
\* partition's allocated cpus and gpus and its jobs_running are those of
\* the jobs RUNNING on it.
C31_NoPartialMutation ==
    last.op = "cycle_error"
        => /\ \A id \in DOMAIN jobs : \A st \in DOMAIN jobs_by_state :
                 id \in jobs_by_state[st] <=> jobs[id].state = st
           /\ \A pn \in PartitionNames :
                 /\ partitions[pn].jobs_running = Cardinality(RunningOn(pn))
                 /\ partitions[pn].allocated_cpus
                       = SumOver(RunningOn(pn), [id \in DOMAIN jobs |-> jobs[id].resources.cpus])
                 /\ partitions[pn].allocated_gpus
                       = SumOver(RunningOn(pn), [id \in DOMAIN jobs |-> jobs[id].resources.gpus])

\* the checks of a submission in the order the spec fixes
CheckOrder == <<"unknown_partition", "cpus", "gpus", "memory", "time_limit">>

\* the checks that submission sub fails; against a partition that does not
\* exist there is nothing to compare the resources with
FailedChecks(sub) ==
    IF sub.partition \notin PartitionNames THEN {"unknown_partition"}
    ELSE LET p == partitions[sub.partition] IN
         {c \in {"cpus"} : sub.resources.cpus > p.total_cpus}
            \cup {c \in {"gpus"} : sub.resources.gpus > p.total_gpus}
            \cup {c \in {"memory"} : sub.resources.memory_gb > p.total_memory_gb}
            \cup {c \in {"time_limit"} :
                    sub.resources.time_limit_minutes > p.max_time_minutes}

\* C32: a rejected submission is rejected for the first of the checks it
\* fails, in the order unknown partition, cpus, gpus, memory, time limit.
C32_FirstFailingCheck ==
    last.op = "rejected"
        => \E i \in DOMAIN CheckOrder :
              /\ last.error = Some(CheckOrder[i])
              /\ CheckOrder[i] \in FailedChecks(last.sub[1])
              /\ \A j \in 1..(i - 1) : CheckOrder[j] \notin FailedChecks(last.sub[1])

\* a submission that asks for more cpus, gpus, memory and time than debug
\* has was rejected for its cpus
C32_Witness ==
    /\ last.op = "rejected"
    /\ FailedChecks(last.sub[1]) = {"cpus", "gpus", "memory", "time_limit"}
    /\ last.error = Some("cpus")

\* the allocated cpus or gpus of partition pn less those of the jobs the
\* step takes out of RUNNING on it
AfterRelease(pn, field) ==
    partitions[pn][field]
        - SumOver(EndedOn(pn), [id \in DOMAIN jobs |-> jobs[id].resources[
              IF field = "allocated_cpus" THEN "cpus" ELSE "gpus"]])

\* C33: a cycle advances the running jobs, then admits, then publishes: the
\* admission pass starts from the counters less what the jobs ended by the
\* cycle held, so its first job is started if it fits what is idle after
\* those releases; a job PENDING before the cycle is PENDING or RUNNING after
\* it, never ended by it; the gauges are set from the state the cycle leaves.
C33_AdvanceAdmitPublish ==
    [][ CycleStep
          => /\ \A pn \in PartitionNames :
                   /\ last'.pre[pn].allocated_cpus = AfterRelease(pn, "allocated_cpus")
                   /\ last'.pre[pn].allocated_gpus = AfterRelease(pn, "allocated_gpus")
             /\ last'.order # <<>>
                   => LET h == last'.order[1]
                          pn == jobs[h].partition
                          req == jobs[h].resources
                      IN  /\ partitions[pn].state = "UP"
                          /\ req.cpus <= partitions[pn].total_cpus
                                            - AfterRelease(pn, "allocated_cpus")
                          /\ req.gpus <= partitions[pn].total_gpus
                                            - AfterRelease(pn, "allocated_gpus")
                          /\ req.memory_gb <= idle_memory_gb(last'.pre[pn])
                          => jobs'[h].state = "RUNNING"
             /\ \A id \in DOMAIN jobs :
                   jobs[id].state = "PENDING"
                       => jobs'[id].state \in {"PENDING", "RUNNING"}
             /\ gauges' = UpdateAllMetrics(gauges, jobs', partitions', jobs_by_state') ]_vars

\* a cycle has timed out a job and started, on what the job released, a job
\* that could not run beside it
C33_Witness ==
    /\ last.op = "cycle"
    /\ \E a, b \in DOMAIN jobs :
          /\ jobs[a].partition = jobs[b].partition
          /\ jobs[a].state \in {"TIMEOUT", "COMPLETED", "FAILED"}
          /\ jobs[a].end_time = Some(now)
          /\ jobs[b].state = "RUNNING" /\ jobs[b].start_time = Some(now)
          /\ jobs[b].submit_time < now
          /\ jobs[a].resources.cpus + jobs[b].resources.cpus
                > partitions[jobs[a].partition].total_cpus

Horizon == MaxTicks * TickSeconds

\* C35: with a loop that keeps cycling and a clock that advances, every job
\* that is RUNNING (and whose time limit ends within the run) reaches a
\* terminal state; a cycle that runs once the job has run for its limit
\* leaves it in TIMEOUT.
C35_RunningEnds ==
    /\ \A id \in 1..MaxSubmits :
          (/\ id \in DOMAIN jobs
           /\ jobs[id].state = "RUNNING"
           /\ jobs[id].start_time[1] + jobs[id].resources.time_limit_minutes * 60
                 <= Horizon)
             ~> (id \in DOMAIN jobs /\ jobs[id].state \in Terminal)
    /\ [][ CycleStep => \A id \in Overdue : jobs'[id].state = "TIMEOUT" ]_vars

\* a job has run for its whole limit and the cycle at that time has timed it
\* out
C35_Witness ==
    /\ last.op = "cycle"
    /\ \E id \in DOMAIN jobs :
          /\ jobs[id].state = "TIMEOUT"
          /\ jobs[id].end_time = Some(now)
          /\ jobs[id].start_time[1] + jobs[id].resources.time_limit_minutes * 60 = now

\* the jobs of the sequence seq that an admission pass over seq alone starts
\* on a partition whose record is p: each job that fits what is idle when
\* its turn comes
RECURSIVE AdmittedAlone(_, _)
AdmittedAlone(p, seq) ==
    IF seq = <<>> THEN {}
    ELSE LET req == jobs[Head(seq)].resources IN
         IF p.state = "UP" /\ FitsIdle(req, p)
         THEN {Head(seq)} \cup AdmittedAlone(Allocate(p, req), Tail(seq))
         ELSE AdmittedAlone(p, Tail(seq))

\* C36: the jobs a cycle's admission pass starts on a partition are those a
\* pass over that partition's pending jobs alone, in the same order and from
\* the same counters, would start: the pending jobs of the other partitions,
\* whatever their priority and whether or not they can be started, change
\* nothing of it.
C36_PartitionsIndependent ==
    [][ CycleStep
          => \A pn \in PartitionNames :
                LET own == SelectSeq(last'.order, LAMBDA id : jobs[id].partition = pn)
                IN  {id \in PendingOn(pn) : jobs'[id].state = "RUNNING"}
                        = AdmittedAlone(last'.pre[pn], own) ]_vars

\* a cycle has started a job of low priority on highmem past a job of high
\* priority that waits for debug, full or not UP
C36_Witness ==
    /\ last.op = "cycle"
    /\ Len(last.order) >= 2
    /\ LET a == last.order[1]
           b == last.order[Len(last.order)]
       IN  /\ jobs[a].partition = "debug" /\ jobs[a].state = "PENDING"
           /\ jobs[b].partition = "highmem" /\ jobs[b].state = "RUNNING"
           /\ jobs[a].priority_value > jobs[b].priority_value
           /\ jobs[b].start_time = Some(now)

\* the loop tasks that can still run a cycle: created, not ended and with no
\* cancellation waiting for them
CanCycle(pc, cancel) == pc \notin {"None", "done"} /\ ~ cancel

LoopsAlive ==
    Cardinality({i \in DOMAIN old_tasks :
                    CanCycle(old_tasks[i].pc, old_tasks[i].cancel)})
        + (IF CanCycle(_scheduler_task, cancel_requested) THEN 1 ELSE 0)

\* C37: whatever the start() and stop() calls, at most one loop task can run
\* a cycle; a step taken while the scheduler is running creates no task, and
\* a task is created only when no task created before can run a cycle.
C37_OneLoop ==
    /\ [](LoopsAlive <= 1)
    /\ [][ TasksCreated' > TasksCreated => ~ _running /\ LoopsAlive = 0 ]_vars

\* start() was called again while a stop() was still waiting for the first
\* task: the first task, not yet ended, has its cancellation waiting, and
\* the second is the one loop
C37_Witness ==
    /\ _running
    /\ Len(old_tasks) >= 1
    /\ old_tasks[1].pc # "done" /\ old_tasks[1].cancel
    /\ CanCycle(_scheduler_task, cancel_requested)
    /\ LoopsAlive = 1

\* C38: when a cycle ends, no job still PENDING on a partition whose state is
\* UP fits in what the partition has idle: a job that fits is never left
\* waiting by an admission pass.
C38_NoFittingJobLeft ==
    [][ CycleStep
          => \A id \in jobs_by_state'["PENDING"] :
                LET p == partitions'[jobs'[id].partition] IN
                p.state = "UP" => ~ FitsIdle(jobs'[id].resources, p) ]_vars

\* a cycle has started a job on debug, UP, and the job sorted after it, which
\* asks for all of debug's cpus, was examined and waits
C38_Witness ==
    /\ last.op = "cycle"
    /\ partitions["debug"].state = "UP"
    /\ Len(last.order) = 2
    /\ LET a == last.order[1]
           b == last.order[2]
       IN  /\ jobs[a].partition = "debug" /\ jobs[a].state = "RUNNING"
           /\ jobs[a].start_time = Some(now)
           /\ jobs[b].partition = "debug" /\ jobs[b].state = "PENDING"
           /\ jobs[b].resources.cpus = partitions["debug"].total_cpus
           /\ ~ FitsIdle(jobs[b].resources, partitions["debug"])

\* the jobs of J in a state whose field has the value v
CountOf(J, st, field, v) ==
    Cardinality({id \in DOMAIN J : J[id].state = st /\ J[id][field] = v})

\* C39: after every cycle, each user label and each account label that a
\* running or pending gauge has a child for reads the number of that user's
\* (account's) jobs now RUNNING or PENDING, 0 once the last of them has ended.
C39_LabelGaugesCurrent ==
    [][ CycleStep
          => /\ \A u \in DOMAIN gauges'.user_running :
                  gauges'.user_running[u] = CountOf(jobs', "RUNNING", "user", u)
             /\ \A u \in DOMAIN gauges'.user_pending :
                  gauges'.user_pending[u] = CountOf(jobs', "PENDING", "user", u)
             /\ \A a \in DOMAIN gauges'.account_running :
                  gauges'.account_running[a]
                      = CountOf(jobs', "RUNNING", "account", Some(a))
             /\ \A a \in DOMAIN gauges'.account_pending :
                  gauges'.account_pending[a]
                      = CountOf(jobs', "PENDING", "account", Some(a)) ]_vars

\* jobs a and b are the two jobs PENDING on a partition, with equal sort keys,
\* and the partition record p has room for either of them but not for both
TiedForOne(a, b, p) ==
    /\ a < b
    /\ jobs[a].partition = jobs[b].partition
    /\ PendingOn(jobs[a].partition) = {a, b}
    /\ jobs[a].priority_value = jobs[b].priority_value
    /\ jobs[a].submit_time = jobs[b].submit_time
    /\ p.state = "UP"
    /\ FitsIdle(jobs[a].resources, p) /\ FitsIdle(jobs[b].resources, p)
    /\ ~ FitsIdle(jobs[b].resources, Allocate(p, jobs[a].resources))
    /\ ~ FitsIdle(jobs[a].resources, Allocate(p, jobs[b].resources))

\* C40: when the two pending jobs of a partition have the same priority_value
\* and the same submit_time and the partition has room for one of them only,
\* the cycle starts the one with the smaller id and leaves the other PENDING.
C40_TieGoesToSmallerId ==
    [][ CycleStep
          => \A a, b \in DOMAIN jobs :
                TiedForOne(a, b, last'.pre[jobs[a].partition])
                    => jobs'[a].state = "RUNNING" /\ jobs'[b].state = "PENDING" ]_vars
====
